---- MODULE Spec2Model ----
(***************************************************************************)
(* Transport client of the Systemair Modbus integration                    *)
(* (custom_components/systemair_modbus/modbus.py, class ModbusTcpClient).  *)
(*                                                                         *)
(* The client runs on one asyncio event loop.  A task runs without         *)
(* interruption from one suspension point (an await that really blocks) to *)
(* the next; `running` names the task that is between two suspension       *)
(* points, so the interleavings of the model are exactly those the event   *)
(* loop can produce.  All durations are in milliseconds.                   *)
(***************************************************************************)
EXTENDS Integers, Sequences, FiniteSets, TLC

(***************************************************************************)
(* Module-level constants of modbus.py                                     *)
(***************************************************************************)
DEFAULT_CONNECT_DELAY_S == 10000
DEFAULT_MESSAGE_WAIT_S == 30
DEFAULT_SAVE_CONNECT_PACING_S == 100
DEFAULT_SAVE_CONNECT_RETRIES == 5
DEFAULT_SAVE_CONNECT_BACKOFF_BASE_S == 200
BACKOFF_CAP_S == 5000

GATEWAY_PROFILE_GENERIC == "generic"
GATEWAY_PROFILE_SAVE_CONNECT == "save_connect"

\* max_batch_size 0 stands for None (no limit)
PROFILE_CONFIG ==
  [p \in {GATEWAY_PROFILE_GENERIC, GATEWAY_PROFILE_SAVE_CONNECT} |->
     IF p = GATEWAY_PROFILE_GENERIC
     THEN [max_batch_size |-> 0, bridge_holes |-> TRUE,
           force_input_as_holding |-> FALSE, use_queue |-> FALSE,
           pacing_s |-> 0, retries |-> 3, backoff_base_s |-> 0,
           connect_delay_s |-> 0]
     ELSE [max_batch_size |-> 2, bridge_holes |-> FALSE,
           force_input_as_holding |-> TRUE, use_queue |-> TRUE,
           pacing_s |-> DEFAULT_SAVE_CONNECT_PACING_S,
           retries |-> DEFAULT_SAVE_CONNECT_RETRIES,
           backoff_base_s |-> DEFAULT_SAVE_CONNECT_BACKOFF_BASE_S,
           connect_delay_s |-> DEFAULT_CONNECT_DELAY_S]]

(***************************************************************************)
(* Tasks of the event loop                                                 *)
(***************************************************************************)
Poller == "poll"
Writers == {"w1"}
Callers == {Poller} \union Writers
Closer == "closer"
Workers == {"k1", "k2"}
Ctx == Callers \union Workers
Tasks == Ctx \union {Closer}

\* The register classes of the spans one poll reads, in reading order.
PollSpans == <<"holding", "input", "input">>

\* What one connect / one request can do.
ConnectOutcomes == {"ok", "refused", "raise"}
Outcomes == {"ok", "none", "err", "busy", "exc"}

VARIABLES
  gateway_profile,        \* self.gateway_profile
  client,                 \* self._client: "none" | "disc" | "conn"
  connected_once,         \* self._connected_once
  force_input_as_holding, \* self._force_input_as_holding
  has_queue,              \* self._queue is not None
  queue,                  \* items of self._queue (callers whose op is queued)
  unfinished_tasks,       \* asyncio.Queue._unfinished_tasks of self._queue
  worker_task,            \* self._worker_task: "none" or a worker
  stop_worker,            \* self._stop_worker.is_set()
  io_lock,                \* holder of self._io_lock, or "none"
  lock_waiters,           \* tasks waiting for self._io_lock, in order
  running,                \* the task the event loop is running, or "none"
  pc,                     \* per task: where it is
  cancelReq,              \* worker tasks with a delivered-on-next-step cancel()
  waitFor,                \* the task async_close waits for
  op,                     \* per worker: the caller whose op it executes
  req,                    \* per caller: the function name of its request
  attempt,                \* per context: loop variable of _robust_read/_write
  lastOut,                \* per context: outcome of its latest attempt
  hnd,                    \* per context: the handle its local refers to
  fut,                    \* per caller: state of the future it awaits
  got,                    \* per caller: what _do_read/_do_write gave it
  span,                   \* poller: index of the span being read
  fallback,               \* poller: the running read is the FC03 fallback
  results,                \* poller: spans whose keys are in `results`
  pollOut,                \* how the latest read_register_map ended
  wOut,                   \* per writer: how its latest write_register ended
  \* ---- history variables (observers, never read by the program) ----
  finalResp,              \* per caller: outcome of the last attempt of its op
  enqOrder,               \* callers with an enqueued, not yet started op
  learned,                \* a fallback with FC03 has succeeded
  sinceResp,              \* least time slept since the latest response, up
                          \* to the next request (-1: no response to follow:
                          \* none yet, a request is out, or it raised)
  writeOk,                \* the latest response is a good write response
                          \* ("resp"), and write_register returned ("acked")
  sinceOp,                \* least time slept since the worker left its
                          \* latest operation, up to the pacing delay (-1: no
                          \* operation yet)
  spanGood,               \* poller: spans whose final response was good
  backoffRun,             \* _calc_backoff over the failed attempts of one
                          \* operation: base, attempt, busy, delay, previous
  rmap,                   \* read_register_map on one register group: profile,
                          \* sorted definitions, spans read so far, words of
                          \* the latest response, keys in `results`
  dec,                    \* one call of _decode_registers: registers, idx,
                          \* data_type, and the value returned
  temp,                   \* one call of write_0_1c: temp_c in hundredths of a
                          \* degree, and the raw value given to write_register
  drv,                    \* one call of SaveModel.compute_derived: qv_max,
                          \* data, and the dict returned
  shim,                   \* one call of _call_read / _call_write: the call
                          \* shapes the transport accepts, the shapes tried,
                          \* how the call ended and what the public operation
                          \* made of it
  cyc                     \* one call of read_register_map: the definitions
                          \* passed in, the reads issued so far, the read
                          \* awaited

vars == <<gateway_profile, client, connected_once, force_input_as_holding,
          has_queue, queue, unfinished_tasks, worker_task, stop_worker,
          io_lock, lock_waiters, running, pc, cancelReq, waitFor, op, req,
          attempt, lastOut, hnd, fut, got, span, fallback, results, pollOut,
          wOut, finalResp, enqOrder, sinceResp, writeOk, sinceOp,
          learned, spanGood, backoffRun, rmap, dec, temp, drv, shim,
          cyc>>

profile == PROFILE_CONFIG[gateway_profile]

\* Variant of __post_init__ that takes the pacing of the generic profile
pacing_s_Generic == PROFILE_CONFIG[GATEWAY_PROFILE_GENERIC].pacing_s

\* __post_init__: the fields read from the profile
use_queue == profile.use_queue
pacing_s == profile.pacing_s
retries == IF profile.retries = 0 THEN 3 ELSE profile.retries
backoff_base_s == profile.backoff_base_s
connect_delay_s == profile.connect_delay_s

Min(a, b) == IF a <= b THEN a ELSE b
Max(a, b) == IF a >= b THEN a ELSE b
Range(s) == {s[i] : i \in 1..Len(s)}

Pow2(n) == IF n <= 0 THEN 1 ELSE 2 ^ n


(***************************************************************************)
(* Pure helpers of the client                                              *)
(***************************************************************************)
\* _is_gateway_busy: an error response with exception code 6 or 11
\* (outcome "busy"); None, a good response and other codes are not busy.
IsGatewayBusy(o) == o = "busy"

\* Variant of _calc_backoff without `min(base, 5.0)`
CalcBackoffFor_NoCap(base, n, busy) ==
  IF base <= 0 THEN 0
  ELSE LET b == base * Pow2(n)
       IN  IF busy THEN (b * 3) \div 2 ELSE b

\* _calc_backoff(attempt, busy) for a backoff base `base`
CalcBackoffFor(base, n, busy) ==
  IF base <= 0 THEN 0
  ELSE LET b == base * Pow2(n)
           b2 == IF busy THEN (b * 3) \div 2 ELSE b
       IN  Min(b2, BACKOFF_CAP_S)

\* self._calc_backoff(attempt, busy)
CalcBackoff(n, busy) == CalcBackoffFor(backoff_base_s, n, busy)

\* Variant of the loop bound: range(max(1, self._retries) + 1)
MaxAttempts_OneMore == Max(1, retries) + 1

\* range(max(1, self._retries)): the number of attempts of one operation
MaxAttempts == Max(1, retries)

\* Variant of the retry test: _force_reconnect is never reached
RetryAgain_Never(n) == FALSE

\* `if attempt < (self._retries - 1)`: reconnect and try again
RetryAgain(n) == n < retries - 1

\* rr is not None and hasattr(rr, "isError") and rr.isError()
IsErrorResponse(o) == o \in {"err", "busy"}

\* Variant of the function-name choice that ignores the sticky flag
FnName_NotSticky(group_type, force) ==
  IF group_type = "input" THEN "read_input_registers"
  ELSE "read_holding_registers"

\* read_register_map: the function name used for one span
FnName(group_type, force) ==
  IF group_type = "input" /\ force THEN "read_holding_registers"
  ELSE IF group_type = "input" THEN "read_input_registers"
  ELSE "read_holding_registers"

\* Variant of __post_init__ that leaves the flag unset under every profile
ForceFromProfile_Unset(p) == FALSE

\* __post_init__: self._force_input_as_holding
ForceFromProfile(p) == PROFILE_CONFIG[p].force_input_as_holding

\* Variant of the flag update that follows the latest span
FlagAfterSpan_Reset(fb, good, flag) == fb /\ good

\* read_register_map: self._force_input_as_holding after a span; set by a
\* good fallback response, assigned nowhere else
FlagAfterSpan(fb, good, flag) == IF fb /\ good THEN TRUE ELSE flag

\* Variant of the failure test without `exc is not None`
ReadFailed_ErrorsOnly(o) == IsErrorResponse(o)

\* read_register_map: failed = (exc is not None) or (rr is not None and rr.isError())
ReadFailed(o) == o = "exc" \/ IsErrorResponse(o)

\* Variant of the fallback test without `rr2.isError()`
FallbackGood_ErrorAccepted(o) == o # "none" /\ o # "exc"

\* read_register_map: the fallback response is usable
FallbackGood(o) == o # "none" /\ o # "exc" /\ ~IsErrorResponse(o)

\* Variant of the test of write_register without `rr.isError()`
WriteRaises_ErrorAccepted(o) == o = "exc" \/ o = "none"

\* Variant of the test of write_register without `rr is None`
WriteRaises_NoneAccepted(o) == o = "exc" \/ IsErrorResponse(o)

\* write_register: `if rr is None or rr.isError(): raise RuntimeError`
WriteRaises(o) == o = "exc" \/ o = "none" \/ IsErrorResponse(o)

(***************************************************************************)
(* Worker bookkeeping                                                      *)
(***************************************************************************)
DonePcs == {"done_ok", "done_cancelled", "done_exc"}
WorkerDone(k) == pc[k] \in DonePcs
WorkerAlive(k) == pc[k] \notin (DonePcs \union {"unborn"})

\* A finished task object is dropped once nothing refers to it.
Referenced(k) == worker_task = k \/ (pc[Closer] = "c_wait" /\ waitFor = k)
Retire(k, how) == IF Referenced(k) THEN how ELSE "unborn"

\* Variant of _ensure_queue_worker that creates a worker on every call
NeedWorker_Always == use_queue

\* _ensure_queue_worker: `self._worker_task is None or self._worker_task.done()`
NeedWorker == use_queue /\ (worker_task = "none" \/ WorkerDone(worker_task))
FreeSlot == CHOOSE k \in Workers : pc[k] = "unborn"
CanEnsure == NeedWorker => \E k \in Workers : pc[k] = "unborn"

\* _ensure_queue_worker: the fields after the call
EnsuredHasQueue == IF use_queue THEN TRUE ELSE has_queue
EnsuredWorker == IF NeedWorker THEN FreeSlot ELSE worker_task
EnsuredStop == IF NeedWorker THEN FALSE ELSE stop_worker
EnsuredPc ==
  IF NeedWorker
  THEN LET old == worker_task
           p1 == IF /\ old # "none" /\ WorkerDone(old)
                    /\ ~(pc[Closer] = "c_wait" /\ waitFor = old)
                 THEN [pc EXCEPT ![old] = "unborn"] ELSE pc
       IN  [p1 EXCEPT ![FreeSlot] = "created"]
  ELSE pc

\* Variant of the worker that sets results only and drops exceptions
SetFuture_ResultOnly(f, o) == IF f = "cancelled" \/ o = "exc" THEN f ELSE o

\* Variant of the worker that resolves the future whatever its state
SetFuture_Unchecked(f, o) == o

\* _queue_worker: `if not fut.cancelled(): fut.set_result(result)` and
\* `if not fut.cancelled(): fut.set_exception(e)`: the future afterwards
SetFuture(f, o) == IF f = "cancelled" THEN f ELSE o

\* The response object as the rest of the code sees it: the exception code
\* is looked at by _is_gateway_busy only
Rr(o) == IF o = "busy" THEN "err" ELSE o

\* The caller on whose behalf context t runs a request
Owner(t) == IF t \in Workers THEN op[t] ELSE t

\* Every local that referred to the discarded handle now holds an old one.
Discard(h) == [t \in Ctx |-> IF h[t] = "cur" THEN "old" ELSE h[t]]

\* asyncio.Lock.release: the lock goes to the first waiter
\* Variant of the lock that is granted whoever holds it
LockFree_Always == TRUE

\* `async with self._io_lock`: asyncio.Lock.acquire returns at once when the
\* lock is not held and nobody waits for it
LockFree == io_lock = "none" /\ lock_waiters = <<>>

ReleasedHolder(t) ==
  IF io_lock # t THEN io_lock
  ELSE IF lock_waiters # <<>> THEN Head(lock_waiters) ELSE "none"
ReleasedWaiters(t) ==
  IF io_lock = t /\ lock_waiters # <<>> THEN Tail(lock_waiters) ELSE lock_waiters

RemoveFirst(s, x) ==
  LET idx == {i \in 1..Len(s) : s[i] = x}
  IN  IF idx = {} THEN s
      ELSE LET j == CHOOSE i \in idx : \A i2 \in idx : i <= i2
           IN  SubSeq(s, 1, j - 1) \o SubSeq(s, j + 1, Len(s))

cfgVars == <<gateway_profile, backoffRun, rmap, dec, temp, drv, shim, cyc>>
clientVars == <<client, connected_once>>
queueVars == <<has_queue, queue, unfinished_tasks, worker_task, stop_worker>>
lockVars == <<io_lock, lock_waiters>>
pollVars == <<span, fallback, results, pollOut, spanGood>>
histVars == <<finalResp, enqOrder, learned>>
timeVars == <<sinceResp, writeOk, sinceOp>>

\* The post-write cooldown of the specification's example (1.2 s); the
\* profiles of modbus.py have no such entry
SPEC_WRITE_COOLDOWN_S == 1200

\* Elapsed time is tracked up to the cooldown of the specification
Slept(d) == IF sinceResp < 0 THEN sinceResp
            ELSE Min(sinceResp + d, SPEC_WRITE_COOLDOWN_S)

\* Elapsed time since the latest operation is tracked up to the pacing delay
SleptOp(d) == IF sinceOp < 0 THEN sinceOp
              ELSE Min(sinceOp + d, DEFAULT_SAVE_CONNECT_PACING_S)

\* Variant of _do_read / _do_write whose direct path does not sleep
MessageWait_QueueOnly(t) == IF t \in Workers THEN DEFAULT_MESSAGE_WAIT_S ELSE 0

\* `await asyncio.sleep(DEFAULT_MESSAGE_WAIT_S)` in _do_read / _do_write,
\* run by context t
MessageWait(t) == DEFAULT_MESSAGE_WAIT_S

\* Variant of _ensure_client that sleeps the connect delay after every connect
SettleNeeded_EveryConnect == connect_delay_s > 0

\* _ensure_client: `if not self._connected_once:` ... `if self._connect_delay_s
\* > 0: await asyncio.sleep(self._connect_delay_s)`
SettleNeeded == ~connected_once /\ connect_delay_s > 0

(***************************************************************************)
(* Initial state: __post_init__                                            *)
(***************************************************************************)
InitClient(p) ==
  /\ gateway_profile = p
  /\ client = "none"
  /\ connected_once = FALSE
  /\ force_input_as_holding = ForceFromProfile(p)
  /\ has_queue = FALSE
  /\ queue = <<>>
  /\ unfinished_tasks = 0
  /\ worker_task = "none"
  /\ stop_worker = FALSE
  /\ io_lock = "none"
  /\ lock_waiters = <<>>
  /\ running = "none"
  /\ pc = [t \in Tasks |-> IF t \in Workers THEN "unborn" ELSE "idle"]
  /\ cancelReq = {}
  /\ waitFor = "none"
  /\ op = [k \in Workers |-> "none"]
  /\ req = [c \in Callers |-> "none"]
  /\ attempt = [t \in Ctx |-> 0]
  /\ lastOut = [t \in Ctx |-> "na"]
  /\ hnd = [t \in Ctx |-> "none"]
  /\ fut = [c \in Callers |-> "idle"]
  /\ got = [c \in Callers |-> "na"]
  /\ span = 0
  /\ fallback = FALSE
  /\ results = {}
  /\ pollOut = "none"
  /\ wOut = [w \in Writers |-> "none"]
  /\ finalResp = [w \in Writers |-> "na"]
  /\ enqOrder = <<>>
  /\ learned = FALSE
  /\ sinceResp = -1
  /\ writeOk = "no"
  /\ sinceOp = -1
  /\ spanGood = {}

\* No attempt has failed yet: _calc_backoff has not been called
NoBackoff(base) ==
  [base |-> base, attempt |-> -1, busy |-> FALSE, delay |-> 0, prev |-> 0]

\* No register group is being read
NoMap(p) == [profile |-> p, group |-> <<>>, pos |-> 0, words |-> 0,
             results |-> {}]

\* _decode_registers has not been called
NoDecode == [registers |-> <<>>, idx |-> 0, data_type |-> "int16",
             done |-> FALSE, none |-> TRUE, hi |-> 0, lo |-> 0]

\* write_0_1c has not been called
NoTemp == [hundredths |-> 0, done |-> FALSE, raw |-> 0]

\* compute_derived has not been called
NoDerived == [called |-> FALSE]

\* _call_read / _call_write has not been called
NoShim == [called |-> FALSE]

\* read_register_map has not been called
NoCycle == [called |-> FALSE]

InitFor(p) ==
  /\ InitClient(p)
  /\ backoffRun = NoBackoff(PROFILE_CONFIG[p].backoff_base_s)
  /\ rmap = NoMap(p)
  /\ dec = NoDecode
  /\ temp = NoTemp
  /\ drv = NoDerived
  /\ shim = NoShim
  /\ cyc = NoCycle

Init == \E p \in {GATEWAY_PROFILE_GENERIC, GATEWAY_PROFILE_SAVE_CONNECT} : InitFor(p)


(***************************************************************************)
(* Callers: read_register_map (the poller) and write_register (writers)    *)
(***************************************************************************)
\* read_register_map, up to the first span: _ensure_queue_worker, results = {}
PollStart ==
  /\ running = "none" /\ pc[Poller] = "idle"
  /\ CanEnsure
  /\ has_queue' = EnsuredHasQueue
  /\ worker_task' = EnsuredWorker
  /\ stop_worker' = EnsuredStop
  /\ pc' = [EnsuredPc EXCEPT ![Poller] = "next_span"]
  /\ running' = Poller
  /\ span' = 1 /\ fallback' = FALSE /\ results' = {} /\ spanGood' = {}
  /\ pollOut' = "none"
  /\ UNCHANGED <<cfgVars, clientVars, force_input_as_holding, queue,
                 unfinished_tasks, lockVars, cancelReq, waitFor, op, req,
                 attempt, lastOut, hnd, fut, got, wOut, histVars>>
  /\ UNCHANGED timeVars

\* read_register_map: `for r_start, r_count in ranges:` picks the function
\* name of the next span, or returns `results` after the last one
NextSpan ==
  /\ running = Poller /\ pc[Poller] = "next_span"
  /\ IF span > Len(PollSpans)
     THEN /\ pc' = [pc EXCEPT ![Poller] = "poll_ret"]
          /\ running' = Poller
          /\ pollOut' = "returned"
          /\ req' = [req EXCEPT ![Poller] = "none"]
          /\ UNCHANGED <<span, fallback, results, spanGood>>
     ELSE /\ pc' = [pc EXCEPT ![Poller] = "do_io"]
          /\ running' = Poller
          /\ req' = [req EXCEPT ![Poller] =
                       FnName(PollSpans[span], force_input_as_holding)]
          /\ UNCHANGED pollVars
  /\ UNCHANGED <<cfgVars, clientVars, force_input_as_holding, queueVars,
                 lockVars, cancelReq, waitFor, op, attempt, lastOut, hnd, fut,
                 got, wOut, histVars>>
  /\ UNCHANGED timeVars

\* write_register, up to _do_write: _ensure_queue_worker
WriteStart(w) ==
  /\ running = "none" /\ pc[w] = "idle"
  /\ CanEnsure
  /\ has_queue' = EnsuredHasQueue
  /\ worker_task' = EnsuredWorker
  /\ stop_worker' = EnsuredStop
  /\ pc' = [EnsuredPc EXCEPT ![w] = "do_io"]
  /\ running' = w
  /\ req' = [req EXCEPT ![w] = "write_register"]
  /\ UNCHANGED <<cfgVars, clientVars, force_input_as_holding, queue,
                 unfinished_tasks, lockVars, cancelReq, waitFor, op, attempt,
                 lastOut, hnd, fut, got, pollVars, wOut, histVars>>
  /\ UNCHANGED timeVars

\* _do_read / _do_write with use_queue: _enqueue puts the op on the queue and
\* awaits its future (no suspension between _ensure_queue_worker and put)
Enqueue(c) ==
  /\ running = c /\ pc[c] = "do_io"
  /\ use_queue
  /\ CanEnsure
  /\ has_queue' = EnsuredHasQueue
  /\ worker_task' = EnsuredWorker
  /\ stop_worker' = EnsuredStop
  /\ queue' = Append(queue, c)
  /\ unfinished_tasks' = unfinished_tasks + 1
  /\ fut' = [fut EXCEPT ![c] = "pending"]
  /\ pc' = [EnsuredPc EXCEPT ![c] = "await_fut"]
  /\ running' = "none"
  /\ enqOrder' = Append(enqOrder, c)
  /\ UNCHANGED <<cfgVars, clientVars, force_input_as_holding, lockVars,
                 cancelReq, waitFor, op, req, attempt, lastOut, hnd, got,
                 pollVars, wOut, finalResp, learned>>
  /\ UNCHANGED timeVars

\* _do_read / _do_write without queue: starts with _ensure_client
DirectStart(c) ==
  /\ running = c /\ pc[c] = "do_io"
  /\ ~use_queue
  /\ pc' = [pc EXCEPT ![c] = "ensure"]
  /\ attempt' = [attempt EXCEPT ![c] = 0]
  /\ lastOut' = [lastOut EXCEPT ![c] = "na"]
  /\ UNCHANGED <<cfgVars, clientVars, force_input_as_holding, queueVars,
                 lockVars, running, cancelReq, waitFor, op, req, hnd, fut,
                 got, pollVars, wOut, histVars>>
  /\ UNCHANGED timeVars

\* _enqueue: `return await fut` once the worker has resolved the future
FutDone(c) ==
  /\ running = "none" /\ pc[c] = "await_fut"
  /\ fut[c] \in Outcomes
  /\ got' = [got EXCEPT ![c] = fut[c]]
  /\ fut' = [fut EXCEPT ![c] = "idle"]
  /\ pc' = [pc EXCEPT ![c] = "have_rr"]
  /\ running' = c
  /\ UNCHANGED <<cfgVars, clientVars, force_input_as_holding, queueVars,
                 lockVars, cancelReq, waitFor, op, req, attempt, lastOut, hnd,
                 pollVars, wOut, histVars>>
  /\ UNCHANGED timeVars

\* read_register_map: what follows `rr = await self._do_read(...)` for a span
PollHaveRR ==
  /\ running = Poller /\ pc[Poller] = "have_rr"
  /\ LET o == got[Poller]
         tryFallback == /\ ~fallback /\ ReadFailed(o)
                        /\ req[Poller] = "read_input_registers"
                        /\ ~force_input_as_holding
         \* `regs = list(rr.registers)` raises AttributeError on None
         raises == ~fallback /\ ~ReadFailed(o) /\ o = "none"
         good == IF fallback THEN FallbackGood(o) ELSE ~ReadFailed(o) /\ ~raises
     IN
     /\ got' = [got EXCEPT ![Poller] = "na"]
     /\ spanGood' = IF ~tryFallback /\ o = "ok"
                    THEN spanGood \union {span} ELSE spanGood
     /\ IF tryFallback
        THEN /\ fallback' = TRUE
             /\ req' = [req EXCEPT ![Poller] = "read_holding_registers"]
             /\ pc' = [pc EXCEPT ![Poller] = "do_io"]
             /\ running' = Poller
             /\ UNCHANGED <<span, results, pollOut, force_input_as_holding,
                            learned>>
        ELSE IF raises
        THEN /\ pc' = [pc EXCEPT ![Poller] = "poll_ret"]
             /\ running' = Poller
             /\ pollOut' = "raised"
             /\ req' = [req EXCEPT ![Poller] = "none"]
             /\ UNCHANGED <<span, fallback, results, force_input_as_holding,
                            learned>>
        ELSE /\ results' = IF good THEN results \union {span} ELSE results
             /\ force_input_as_holding' =
                  FlagAfterSpan(fallback, good, force_input_as_holding)
             /\ learned' = IF fallback /\ good THEN TRUE ELSE learned
             /\ span' = span + 1
             /\ fallback' = FALSE
             /\ pc' = [pc EXCEPT ![Poller] = "next_span"]
             /\ running' = Poller
             /\ UNCHANGED <<pollOut, req>>
  /\ UNCHANGED <<cfgVars, clientVars, queueVars, lockVars, cancelReq, waitFor,
                 op, attempt, lastOut, hnd, fut, wOut, finalResp, enqOrder>>
  /\ UNCHANGED timeVars

\* read_register_map has returned `results` or raised: the call is over
PollReturn ==
  /\ running = Poller /\ pc[Poller] = "poll_ret"
  /\ pc' = [pc EXCEPT ![Poller] = "idle"]
  /\ running' = "none"
  /\ span' = 0 /\ fallback' = FALSE /\ results' = {} /\ spanGood' = {}
  /\ pollOut' = "none"
  /\ UNCHANGED <<cfgVars, clientVars, force_input_as_holding, queueVars,
                 lockVars, cancelReq, waitFor, op, req, attempt, lastOut, hnd,
                 fut, got, wOut, histVars>>
  /\ UNCHANGED timeVars

\* write_register: `if rr is None or rr.isError(): raise RuntimeError`; an
\* exception of _do_write propagates
WriteHaveRR(w) ==
  /\ running = w /\ pc[w] = "have_rr"
  /\ wOut' = [wOut EXCEPT ![w] = IF WriteRaises(got[w]) THEN "raised"
                                 ELSE "returned"]
  /\ got' = [got EXCEPT ![w] = "na"]
  /\ req' = [req EXCEPT ![w] = "none"]
  /\ pc' = [pc EXCEPT ![w] = "write_ret"]
  /\ UNCHANGED <<cfgVars, clientVars, force_input_as_holding, queueVars,
                 lockVars, running, cancelReq, waitFor, op, attempt, lastOut,
                 hnd, fut, pollVars, histVars>>
  /\ writeOk' = IF writeOk = "resp" /\ ~WriteRaises(got[w])
                THEN "acked" ELSE writeOk
  /\ UNCHANGED <<sinceResp, sinceOp>>

\* write_register has returned or raised: the call is over
WriteReturn(w) ==
  /\ running = w /\ pc[w] = "write_ret"
  /\ pc' = [pc EXCEPT ![w] = "idle"]
  /\ running' = "none"
  /\ wOut' = [wOut EXCEPT ![w] = "none"]
  /\ finalResp' = [finalResp EXCEPT ![w] = "na"]
  /\ UNCHANGED <<cfgVars, clientVars, force_input_as_holding, queueVars,
                 lockVars, cancelReq, waitFor, op, req, attempt, lastOut, hnd,
                 fut, got, pollVars, enqOrder, learned>>
  /\ UNCHANGED timeVars

(***************************************************************************)
(* One request: _ensure_client, the pymodbus call, and what follows it.    *)
(* The context t is the queue worker (use_queue) or the caller itself.     *)
(***************************************************************************)
\* _ensure_client up to `await self._client.connect()`
Ensure(t) ==
  /\ running = t /\ pc[t] = "ensure"
  /\ LET c1 == IF client = "none" THEN "disc" ELSE client IN
     /\ client' = c1
     /\ IF c1 # "conn"
        THEN /\ pc' = [pc EXCEPT ![t] = "connect"]
             /\ running' = "none"
             /\ hnd' = [hnd EXCEPT ![t] = "cur"]
        ELSE /\ pc' = [pc EXCEPT ![t] = "got_client"]
             /\ UNCHANGED <<running, hnd>>
  /\ UNCHANGED <<cfgVars, connected_once, force_input_as_holding, queueVars,
                 lockVars, cancelReq, waitFor, op, req, attempt, lastOut, fut,
                 got, pollVars, wOut, histVars>>
  /\ UNCHANGED timeVars

\* _ensure_client: connect() returns (connected or not) or raises; the first
\* connect since _connected_once was cleared is followed by the connect delay
ConnectReturn(t, r) ==
  /\ running = "none" /\ pc[t] = "connect" /\ t \notin cancelReq
  /\ IF r = "raise"
     THEN /\ lastOut' = [lastOut EXCEPT ![t] = "exc"]
          /\ finalResp' = IF Owner(t) \in Writers
                          THEN [finalResp EXCEPT ![Owner(t)] = "exc"]
                          ELSE finalResp
          /\ pc' = [pc EXCEPT ![t] = "failed"]
          /\ running' = t
          /\ UNCHANGED <<client, connected_once>>
     ELSE /\ client' = IF r = "ok" /\ hnd[t] = "cur" THEN "conn" ELSE client
          /\ connected_once' = TRUE
          /\ IF SettleNeeded
             THEN pc' = [pc EXCEPT ![t] = "settle"] /\ running' = "none"
             ELSE pc' = [pc EXCEPT ![t] = "got_client"] /\ running' = t
          /\ UNCHANGED <<lastOut, finalResp>>
  /\ UNCHANGED <<cfgVars, force_input_as_holding, queueVars,
                 lockVars, cancelReq, waitFor, op, req, attempt, hnd, fut,
                 got, pollVars, wOut, enqOrder, learned>>
  /\ UNCHANGED timeVars

\* _ensure_client: `await asyncio.sleep(self._connect_delay_s)` is over
SettleDone(t) ==
  /\ running = "none" /\ pc[t] = "settle" /\ t \notin cancelReq
  /\ pc' = [pc EXCEPT ![t] = "got_client"]
  /\ running' = t
  /\ UNCHANGED <<cfgVars, clientVars, force_input_as_holding, queueVars,
                 lockVars, cancelReq, waitFor, op, req, attempt, lastOut, hnd,
                 fut, got, pollVars, wOut, histVars>>
  /\ sinceResp' = Slept(connect_delay_s)
  /\ sinceOp' = SleptOp(connect_delay_s)
  /\ UNCHANGED writeOk

\* _ensure_client: `return self._client`.  With the queue the request follows
\* at once (_read_once / _write_once); without it the caller first takes
\* self._io_lock (`async with self._io_lock`)
GotClient(t) ==
  /\ running = t /\ pc[t] = "got_client"
  /\ hnd' = [hnd EXCEPT ![t] = IF client = "none" THEN "none" ELSE "cur"]
  /\ IF t \in Workers
     THEN /\ pc' = [pc EXCEPT ![t] = "call"]
          /\ UNCHANGED <<running, lockVars>>
     ELSE IF LockFree
     THEN /\ io_lock' = t
          /\ pc' = [pc EXCEPT ![t] = "call"]
          /\ UNCHANGED <<running, lock_waiters>>
     ELSE /\ lock_waiters' = Append(lock_waiters, t)
          /\ pc' = [pc EXCEPT ![t] = "lockwait"]
          /\ running' = "none"
          /\ UNCHANGED io_lock
  /\ UNCHANGED <<cfgVars, clientVars, force_input_as_holding, queueVars,
                 cancelReq, waitFor, op, req, attempt, lastOut, fut, got,
                 pollVars, wOut, histVars>>
  /\ UNCHANGED timeVars

\* asyncio.Lock.acquire returns in the waiter the lock was released to
LockGranted(c) ==
  /\ running = "none" /\ pc[c] = "lockwait" /\ io_lock = c
  /\ pc' = [pc EXCEPT ![c] = "call"]
  /\ running' = c
  /\ UNCHANGED <<cfgVars, clientVars, force_input_as_holding, queueVars,
                 lockVars, cancelReq, waitFor, op, req, attempt, lastOut, hnd,
                 fut, got, pollVars, wOut, histVars>>
  /\ UNCHANGED timeVars

\* _call_read / _call_write: the request goes out on a connected handle; on
\* None (AttributeError) or on a handle that is not connected the call raises
Call(t) ==
  /\ running = t /\ pc[t] = "call"
  /\ IF hnd[t] = "cur" /\ client = "conn"
     THEN /\ pc' = [pc EXCEPT ![t] = "io"]
          /\ running' = "none"
          /\ UNCHANGED <<lastOut, finalResp>>
     ELSE /\ pc' = [pc EXCEPT ![t] = "failed"]
          /\ lastOut' = [lastOut EXCEPT ![t] = "exc"]
          /\ finalResp' = IF Owner(t) \in Writers
                          THEN [finalResp EXCEPT ![Owner(t)] = "exc"]
                          ELSE finalResp
          /\ UNCHANGED running
  /\ UNCHANGED <<cfgVars, clientVars, force_input_as_holding,
                 queueVars, lockVars, cancelReq, waitFor, op, req, attempt,
                 hnd, fut, got, pollVars, wOut, enqOrder, learned>>
  /\ IF hnd[t] = "cur" /\ client = "conn"
     THEN sinceResp' = -1 /\ writeOk' = "no" /\ UNCHANGED sinceOp
     ELSE UNCHANGED timeVars

\* The request returns a response (good, None, error, busy error) or raises.
\* _robust_read/_robust_write: an error response is followed by the backoff
\* sleep; anything else is returned (the op then sleeps DEFAULT_MESSAGE_WAIT_S).
\* Without queue every response is followed by DEFAULT_MESSAGE_WAIT_S under the
\* lock.
Response(t, o) ==
  /\ running = "none" /\ pc[t] = "io" /\ t \notin cancelReq
  /\ lastOut' = [lastOut EXCEPT ![t] = Rr(o)]
  /\ finalResp' = IF Owner(t) \in Writers
                  THEN [finalResp EXCEPT ![Owner(t)] = Rr(o)] ELSE finalResp
  /\ IF o = "exc"
     THEN pc' = [pc EXCEPT ![t] = "failed"] /\ running' = t
     ELSE IF t \in Workers /\ IsErrorResponse(o)
     THEN IF CalcBackoff(attempt[t], IsGatewayBusy(o)) > 0
          THEN pc' = [pc EXCEPT ![t] = "backoff"] /\ running' = "none"
          ELSE pc' = [pc EXCEPT ![t] = "after_backoff"] /\ running' = t
     ELSE pc' = [pc EXCEPT ![t] = "msgwait"] /\ running' = "none"
  /\ UNCHANGED <<cfgVars, clientVars, force_input_as_holding, queueVars,
                 lockVars, cancelReq, waitFor, op, req, attempt, hnd, fut,
                 got, pollVars, wOut, enqOrder, learned>>
  /\ sinceResp' = IF o = "exc" THEN -1 ELSE 0
  /\ UNCHANGED sinceOp
  /\ writeOk' = IF req[Owner(t)] = "write_register" /\ o = "ok"
                THEN "resp" ELSE "no"

\* An attempt raised.  _robust_read/_robust_write (except branch): backoff
\* sleep with busy = False.  Without queue the exception leaves the lock and
\* goes to the caller.
Failed(t) ==
  /\ running = t /\ pc[t] = "failed"
  /\ IF t \in Workers
     THEN /\ IF CalcBackoff(attempt[t], FALSE) > 0
             THEN pc' = [pc EXCEPT ![t] = "backoff"] /\ running' = "none"
             ELSE pc' = [pc EXCEPT ![t] = "after_backoff"] /\ running' = t
          /\ UNCHANGED <<lockVars, got>>
     ELSE /\ io_lock' = ReleasedHolder(t)
          /\ lock_waiters' = ReleasedWaiters(t)
          /\ got' = [got EXCEPT ![t] = "exc"]
          /\ pc' = [pc EXCEPT ![t] = "have_rr"]
          /\ UNCHANGED running
  /\ lastOut' = IF t \in Workers THEN lastOut ELSE [lastOut EXCEPT ![t] = "na"]
  /\ hnd' = [hnd EXCEPT ![t] = "none"]
  /\ UNCHANGED <<cfgVars, clientVars, force_input_as_holding, queueVars,
                 cancelReq, waitFor, op, req, attempt, fut, pollVars, wOut,
                 histVars>>
  /\ UNCHANGED timeVars

\* _robust_read/_robust_write after the backoff sleep: _force_reconnect and
\* the next attempt, or the end of the loop (return rr / raise last_exc).
\* The worker then resolves the future and sleeps the pacing delay.
BackoffDone(k) ==
  /\ k \in Workers
  /\ \/ running = "none" /\ pc[k] = "backoff" /\ k \notin cancelReq
     \/ running = k /\ pc[k] = "after_backoff"
  /\ LET again == RetryAgain(attempt[k])
         more == attempt[k] + 1 < MaxAttempts
         c == op[k]
     IN
     \* _force_reconnect
     /\ client' = IF again THEN "none" ELSE client
     /\ connected_once' = IF again THEN FALSE ELSE connected_once
     /\ hnd' = [(IF again THEN Discard(hnd) ELSE hnd) EXCEPT ![k] = "none"]
     /\ IF (again \/ lastOut[k] = "exc") /\ more
        THEN /\ attempt' = [attempt EXCEPT ![k] = attempt[k] + 1]
             /\ pc' = [pc EXCEPT ![k] = "ensure"]
             /\ running' = k
             /\ UNCHANGED <<fut, op, lastOut>>
        ELSE IF lastOut[k] = "exc"
        THEN \* raise last_exc; worker: fut.set_exception(e), then pacing
             /\ fut' = [fut EXCEPT ![c] = SetFuture(fut[c], "exc")]
             /\ op' = [op EXCEPT ![k] = "none"]
             /\ pc' = [pc EXCEPT ![k] = "pacing"]
             /\ running' = "none"
             /\ attempt' = [attempt EXCEPT ![k] = 0]
             /\ lastOut' = [lastOut EXCEPT ![k] = "na"]
        ELSE \* return rr (an error response): the op sleeps the message wait
             /\ pc' = [pc EXCEPT ![k] = "msgwait"]
             /\ running' = "none"
             /\ UNCHANGED <<attempt, fut, op, lastOut>>
  /\ UNCHANGED <<cfgVars, force_input_as_holding, queueVars, lockVars,
                 cancelReq, waitFor, req, got, pollVars, wOut, histVars>>
  /\ sinceResp' = IF pc[k] = "backoff"
                  THEN Slept(CalcBackoff(attempt[k], FALSE)) ELSE sinceResp
  \* the operation is over when it raises last_exc
  /\ sinceOp' = IF pc'[k] = "pacing" THEN 0
                ELSE IF pc[k] = "backoff"
                THEN SleptOp(CalcBackoff(attempt[k], FALSE)) ELSE sinceOp
  /\ UNCHANGED writeOk

\* `await asyncio.sleep(DEFAULT_MESSAGE_WAIT_S)` is over.  With the queue the
\* op returns rr and the worker sets the future's result, then sleeps the
\* pacing delay; without it the caller leaves the lock and has rr.
MsgWaitDone(t) ==
  /\ running = "none" /\ pc[t] = "msgwait" /\ t \notin cancelReq
  /\ IF t \in Workers
     THEN /\ fut' = [fut EXCEPT ![op[t]] = SetFuture(fut[op[t]], lastOut[t])]
          /\ op' = [op EXCEPT ![t] = "none"]
          /\ pc' = [pc EXCEPT ![t] = "pacing"]
          /\ UNCHANGED <<running, lockVars, got>>
     ELSE /\ io_lock' = ReleasedHolder(t)
          /\ lock_waiters' = ReleasedWaiters(t)
          /\ got' = [got EXCEPT ![t] = lastOut[t]]
          /\ pc' = [pc EXCEPT ![t] = "have_rr"]
          /\ running' = t
          /\ UNCHANGED <<fut, op>>
  /\ attempt' = [attempt EXCEPT ![t] = 0]
  /\ lastOut' = [lastOut EXCEPT ![t] = "na"]
  /\ hnd' = [hnd EXCEPT ![t] = "none"]
  /\ UNCHANGED <<cfgVars, clientVars, force_input_as_holding, queueVars,
                 cancelReq, waitFor, req, pollVars, wOut, histVars>>
  /\ sinceResp' = Slept(MessageWait(t))
  \* with the queue the operation is over when it returns rr
  /\ sinceOp' = IF t \in Workers THEN 0 ELSE sinceOp
  /\ UNCHANGED writeOk

(***************************************************************************)
(* The queue worker (_queue_worker); workers exist only with use_queue,    *)
(* i.e. under save_connect, whose pacing delay is positive.                *)
(***************************************************************************)
\* First step of the task: `assert self._queue is not None`
WorkerStart(k) ==
  /\ running = "none" /\ pc[k] = "created" /\ k \notin cancelReq
  /\ IF has_queue
     THEN pc' = [pc EXCEPT ![k] = "loop"] /\ running' = k
     ELSE pc' = [pc EXCEPT ![k] = Retire(k, "done_exc")] /\ UNCHANGED running
  /\ UNCHANGED <<cfgVars, clientVars, force_input_as_holding, queueVars,
                 lockVars, cancelReq, waitFor, op, req, attempt, lastOut, hnd,
                 fut, got, pollVars, wOut, histVars>>
  /\ UNCHANGED timeVars

\* `while not self._stop_worker.is_set():` then `await self._queue.get()`,
\* which returns at once when the queue holds an item
WorkerLoop(k) ==
  /\ running = k /\ pc[k] = "loop"
  /\ IF stop_worker
     THEN pc' = [pc EXCEPT ![k] = Retire(k, "done_ok")] /\ running' = "none"
     ELSE IF ~has_queue
     THEN pc' = [pc EXCEPT ![k] = Retire(k, "done_exc")] /\ running' = "none"
     ELSE IF queue = <<>>
     THEN pc' = [pc EXCEPT ![k] = "get"] /\ running' = "none"
     ELSE pc' = [pc EXCEPT ![k] = "deq"] /\ UNCHANGED running
  /\ UNCHANGED <<cfgVars, clientVars, force_input_as_holding, queueVars,
                 lockVars, cancelReq, waitFor, op, req, attempt, lastOut, hnd,
                 fut, got, pollVars, wOut, histVars>>
  /\ UNCHANGED timeVars

\* queue.get() wakes up: an item was put
WorkerWake(k) ==
  /\ running = "none" /\ pc[k] = "get" /\ k \notin cancelReq
  /\ queue # <<>>
  /\ pc' = [pc EXCEPT ![k] = "deq"]
  /\ running' = k
  /\ UNCHANGED <<cfgVars, clientVars, force_input_as_holding, queueVars,
                 lockVars, cancelReq, waitFor, op, req, attempt, lastOut, hnd,
                 fut, got, pollVars, wOut, histVars>>
  /\ UNCHANGED timeVars

\* Variant of the queue that hands out the newest item
QueueGetIndex_Newest(q) == Len(q)

\* asyncio.Queue.get: the item the worker takes (the oldest one)
QueueGetIndex(q) == 1

\* `op_name, op_coro_factory, fut = await self._queue.get()`; a cancelled
\* future is skipped, otherwise the op starts (_robust_read / _robust_write)
WorkerDeq(k) ==
  /\ running = k /\ pc[k] = "deq"
  /\ LET i == QueueGetIndex(queue)
         c == queue[i]
     IN
     /\ queue' = SubSeq(queue, 1, i - 1) \o SubSeq(queue, i + 1, Len(queue))
     /\ IF fut[c] = "cancelled"
        THEN /\ unfinished_tasks' = unfinished_tasks - 1
             /\ pc' = [pc EXCEPT ![k] = "loop"]
             /\ enqOrder' = RemoveFirst(enqOrder, c)
             /\ UNCHANGED <<op, attempt, lastOut>>
        ELSE /\ op' = [op EXCEPT ![k] = c]
             /\ attempt' = [attempt EXCEPT ![k] = 0]
             /\ lastOut' = [lastOut EXCEPT ![k] = "na"]
             /\ pc' = [pc EXCEPT ![k] = "ensure"]
             /\ enqOrder' = RemoveFirst(enqOrder, c)
             /\ UNCHANGED unfinished_tasks
  /\ UNCHANGED <<cfgVars, clientVars, force_input_as_holding, has_queue,
                 worker_task, stop_worker, lockVars, running, cancelReq,
                 waitFor, req, hnd, fut, got, pollVars, wOut, finalResp,
                 learned>>
  /\ UNCHANGED timeVars

\* finally: `await asyncio.sleep(self._pacing_s)` is over, then
\* `self._queue.task_done()`; after a cancelled op the CancelledError goes on
PacingDone(k) ==
  /\ running = "none" /\ pc[k] \in {"pacing", "pacing_c"} /\ k \notin cancelReq
  /\ IF ~has_queue \/ unfinished_tasks = 0
     THEN \* AttributeError on None / ValueError of task_done
          /\ pc' = [pc EXCEPT ![k] = Retire(k, "done_exc")]
          /\ UNCHANGED <<running, unfinished_tasks>>
     ELSE /\ unfinished_tasks' = unfinished_tasks - 1
          /\ IF pc[k] = "pacing"
             THEN pc' = [pc EXCEPT ![k] = "loop"] /\ running' = k
             ELSE /\ pc' = [pc EXCEPT ![k] = Retire(k, "done_cancelled")]
                  /\ UNCHANGED running
  /\ UNCHANGED <<cfgVars, clientVars, force_input_as_holding, has_queue, queue,
                 worker_task, stop_worker, lockVars, cancelReq, waitFor, op,
                 req, attempt, lastOut, hnd, fut, got, pollVars, wOut,
                 histVars>>
  /\ sinceResp' = Slept(pacing_s)
  /\ sinceOp' = SleptOp(pacing_s)
  /\ UNCHANGED writeOk

\* task.cancel() takes effect at the await the worker is suspended in:
\*  - before the first step the task ends cancelled;
\*  - in queue.get() and in the pacing sleep CancelledError is caught: return;
\*  - inside the op it is not caught (`except Exception`); the op is abandoned
\*    with its future unresolved and the finally clause sleeps the pacing delay.
CancelDeliver(k) ==
  /\ running = "none" /\ k \in cancelReq
  /\ cancelReq' = cancelReq \ {k}
  /\ IF pc[k] = "created"
     THEN pc' = [pc EXCEPT ![k] = Retire(k, "done_cancelled")] /\ UNCHANGED op
     ELSE IF pc[k] \in {"get", "get_orphan", "pacing", "pacing_c"}
     THEN pc' = [pc EXCEPT ![k] = Retire(k, "done_ok")] /\ UNCHANGED op
     ELSE /\ pc' = [pc EXCEPT ![k] = "pacing_c"]
          /\ op' = [op EXCEPT ![k] = "none"]
  /\ attempt' = [attempt EXCEPT ![k] = 0]
  /\ lastOut' = [lastOut EXCEPT ![k] = "na"]
  /\ hnd' = [hnd EXCEPT ![k] = "none"]
  /\ UNCHANGED <<cfgVars, clientVars, force_input_as_holding, queueVars,
                 lockVars, running, waitFor, req, fut, got, pollVars, wOut,
                 histVars>>
  /\ UNCHANGED <<sinceResp, writeOk>>
  /\ sinceOp' = IF pc'[k] = "pacing_c" THEN 0 ELSE sinceOp

(***************************************************************************)
(* Cancellation of a caller                                                *)
(***************************************************************************)
\* The task that called read_register_map / write_register is cancelled
\* while it is suspended in `return await fut` (_enqueue): a future that is
\* not done is cancelled with it, and CancelledError leaves the call
\* (`except Exception` in read_register_map does not catch it)
CancelCaller(c) ==
  /\ running = "none" /\ pc[c] = "await_fut"
  /\ fut' = [fut EXCEPT ![c] = IF fut[c] = "pending" THEN "cancelled"
                                ELSE fut[c]]
  /\ pc' = [pc EXCEPT ![c] = "cancelled"]
  /\ UNCHANGED <<cfgVars, clientVars, force_input_as_holding, queueVars,
                 lockVars, running, cancelReq, waitFor, op, req, attempt,
                 lastOut, hnd, got, pollVars, wOut, histVars>>
  /\ UNCHANGED timeVars

\* The cancelled caller is free to call again; it does so once the worker is
\* through with the operation it left behind
CallAgain(c) ==
  /\ running = "none" /\ pc[c] = "cancelled"
  /\ c \notin Range(queue) /\ \A k \in Workers : op[k] # c
  /\ pc' = [pc EXCEPT ![c] = "idle"]
  /\ fut' = [fut EXCEPT ![c] = "idle"]
  /\ req' = [req EXCEPT ![c] = "none"]
  /\ IF c = Poller
     THEN /\ span' = 0 /\ fallback' = FALSE /\ results' = {}
          /\ spanGood' = {} /\ pollOut' = "none"
          /\ UNCHANGED <<wOut, finalResp>>
     ELSE /\ wOut' = [wOut EXCEPT ![c] = "none"]
          /\ finalResp' = [finalResp EXCEPT ![c] = "na"]
          /\ UNCHANGED pollVars
  /\ UNCHANGED <<cfgVars, clientVars, force_input_as_holding, queueVars,
                 lockVars, running, cancelReq, waitFor, op, attempt, lastOut,
                 hnd, got, enqOrder, learned>>
  /\ UNCHANGED timeVars

(***************************************************************************)
(* async_close                                                             *)
(***************************************************************************)
\* async_close up to the wait of _stop_queue_worker: set the stop event and
\* cancel the worker; without a worker the client is closed at once
CloseStart ==
  /\ running = "none" /\ pc[Closer] = "idle"
  /\ IF worker_task = "none"
     THEN /\ client' = "none"
          /\ connected_once' = FALSE
          /\ hnd' = Discard(hnd)
          /\ pc' = [pc EXCEPT ![Closer] = "closed"]
          /\ UNCHANGED <<stop_worker, cancelReq, waitFor>>
     ELSE /\ stop_worker' = TRUE
          /\ cancelReq' = IF WorkerDone(worker_task) THEN cancelReq
                          ELSE cancelReq \union {worker_task}
          /\ waitFor' = worker_task
          /\ pc' = [pc EXCEPT ![Closer] = "c_wait"]
          /\ UNCHANGED <<clientVars, hnd>>
  /\ UNCHANGED <<cfgVars, force_input_as_holding, has_queue, queue,
                 unfinished_tasks, worker_task, lockVars, running, op, req,
                 attempt, lastOut, fut, got, pollVars, wOut, finalResp,
                 enqOrder, learned>>
  /\ UNCHANGED timeVars

\* `await asyncio.wait_for(asyncio.shield(self._worker_task), timeout=1.0)`
\* returns when the worker has ended (it ends at once or after the pacing
\* sleep, well inside the timeout).  A worker that ended cancelled cancels the
\* shield: CancelledError is not an Exception, so it leaves _stop_queue_worker
\* and async_close before any field is reset.  Otherwise the worker and queue
\* fields are reset and the client is closed.
CloseResume ==
  /\ running = "none" /\ pc[Closer] = "c_wait"
  /\ WorkerDone(waitFor)
  /\ waitFor' = "none"
  /\ IF pc[waitFor] = "done_cancelled"
     THEN /\ pc' = [pc EXCEPT ![Closer] = "closed",
                              ![waitFor] = IF worker_task = waitFor
                                           THEN pc[waitFor] ELSE "unborn"]
          /\ UNCHANGED <<clientVars, hnd, queueVars, enqOrder>>
     ELSE /\ worker_task' = "none"
          /\ has_queue' = FALSE
          /\ queue' = <<>>
          /\ unfinished_tasks' = 0
          /\ enqOrder' = <<>>
          /\ pc' = [t \in Tasks |->
                      IF t = Closer THEN "closed"
                      ELSE IF t = waitFor THEN "unborn"
                      ELSE IF pc[t] = "get" THEN "get_orphan"
                      ELSE pc[t]]
          /\ client' = "none"
          /\ connected_once' = FALSE
          /\ hnd' = Discard(hnd)
          /\ UNCHANGED stop_worker
  /\ UNCHANGED <<cfgVars, force_input_as_holding, lockVars, running,
                 cancelReq, op, req, attempt, lastOut, fut, got, pollVars,
                 wOut, finalResp, learned>>
  /\ UNCHANGED timeVars

(***************************************************************************)
(* _calc_backoff on its own: the delays of the successive failed attempts   *)
(* of one operation, for a range of backoff bases                           *)
(***************************************************************************)
MaxBaseUnits == 5
MaxBackoffAttempt == 6

BackoffBases ==
  {i * DEFAULT_SAVE_CONNECT_BACKOFF_BASE_S : i \in 0..MaxBaseUnits}

clientState == <<gateway_profile, client, connected_once,
                 force_input_as_holding, has_queue, queue, unfinished_tasks,
                 worker_task, stop_worker, io_lock, lock_waiters, running, pc,
                 cancelReq, waitFor, op, req, attempt, lastOut, hnd, fut, got,
                 span, fallback, results, pollOut, wOut, finalResp, enqOrder,
                 sinceResp, writeOk, sinceOp, learned, spanGood>>

InitBackoff ==
  /\ InitClient(GATEWAY_PROFILE_SAVE_CONNECT)
  /\ rmap = NoMap(GATEWAY_PROFILE_SAVE_CONNECT)
  /\ dec = NoDecode
  /\ temp = NoTemp
  /\ drv = NoDerived
  /\ shim = NoShim
  /\ cyc = NoCycle
  /\ \E base \in BackoffBases : backoffRun = NoBackoff(base)

\* _robust_read/_robust_write: attempt number backoffRun.attempt + 1 failed with
\* an error response ("err", "busy") or an exception ("exc");
\* backoff = self._calc_backoff(attempt, busy)
FailedAttempt(o) ==
  /\ backoffRun.attempt < MaxBackoffAttempt
  /\ LET n == backoffRun.attempt + 1
         busy == IsGatewayBusy(o)
     IN  backoffRun' = [base |-> backoffRun.base, attempt |-> n, busy |-> busy,
                        delay |-> CalcBackoffFor(backoffRun.base, n, busy),
                        prev |-> backoffRun.delay]
  /\ UNCHANGED <<clientState, rmap, dec, temp, drv, shim, cyc>>

NextBackoff == \E o \in {"err", "busy", "exc"} : FailedAttempt(o)

SpecBackoff == InitBackoff /\ [][NextBackoff]_vars

(***************************************************************************)
(* read_register_map on its own: batches, chunked ranges and decoding of    *)
(* one register group (all definitions of one input_type), for every        *)
(* bounded list of definitions and every response to each range             *)
(***************************************************************************)
MaxAddress == 4
MaxDefs == 3

DataTypes == {"int16", "uint32"}

\* _reg_len
RegLen(data_type) == IF data_type = "uint32" THEN 2 ELSE 1

\* Register definitions: address and data_type; the key of a definition is its
\* position in the group
RegisterDefs == [address : 0..MaxAddress, data_type : DataTypes]

\* `sorted(register_defs, key=lambda d: int(d["address"]))`: the groups are
\* the lists in ascending address order (equal addresses in any order)
SortedGroups ==
  UNION {{g \in [1..n -> RegisterDefs] :
            \A i \in 1..(n - 1) : g[i].address <= g[i + 1].address} :
         n \in 1..MaxDefs}

DefEnd(d) == d.address + RegLen(d.data_type)

\* Variant of the contiguity test that bridges under every profile
Contiguous_Bridging(bridge_holes, addr, last_end) == addr <= last_end

\* read_group: `contiguous = addr == last_end`, and with bridge_holes
\* `contiguous = addr <= last_end`
Contiguous(bridge_holes, addr, last_end) ==
  IF bridge_holes THEN addr <= last_end ELSE addr = last_end

\* read_group: the loop building `batches` (lists of keys), from definition i
\* on, with the current `batch` and `last_end`
RECURSIVE BuildBatches(_, _, _, _, _)
BuildBatches(group, i, batch, last_end, bridge_holes) ==
  IF i > Len(group)
  THEN IF batch # <<>> THEN <<batch>> ELSE <<>>
  ELSE LET addr == group[i].address
           length == RegLen(group[i].data_type)
       IN  IF batch = <<>>
           THEN BuildBatches(group, i + 1, <<i>>, addr + length, bridge_holes)
           ELSE IF Contiguous(bridge_holes, addr, last_end)
           THEN BuildBatches(group, i + 1, Append(batch, i),
                             Max(last_end, addr + length), bridge_holes)
           ELSE <<batch>> \o
                BuildBatches(group, i + 1, <<i>>, addr + length, bridge_holes)

Batches(group, p) ==
  BuildBatches(group, 1, <<>>, 0, PROFILE_CONFIG[p].bridge_holes)

\* Variant of _split_ranges that does not chunk
SplitRanges_Whole(start, count, max_count) ==
  IF count > 0 THEN <<[r_start |-> start, r_count |-> count]>> ELSE <<>>

\* _split_ranges(start, count, max_count)
RECURSIVE SplitRanges(_, _, _)
SplitRanges(start, count, max_count) ==
  IF count <= 0 THEN <<>>
  ELSE LET c == Min(max_count, count)
       IN  <<[r_start |-> start, r_count |-> c]>> \o
           SplitRanges(start + c, count - c, max_count)

SetMin(S) == CHOOSE x \in S : \A y \in S : x <= y
SetMax(S) == CHOOSE x \in S : \A y \in S : x >= y

\* read_group: `ranges` of one batch b
Ranges(group, b, p) ==
  LET start == SetMin({group[b[j]].address : j \in 1..Len(b)})
      end == SetMax({DefEnd(group[b[j]]) : j \in 1..Len(b)})
      count == end - start
      max_batch == PROFILE_CONFIG[p].max_batch_size
  IN  IF max_batch = 0 THEN <<[r_start |-> start, r_count |-> count]>>
      ELSE SplitRanges(start, count, Max(2, max_batch))

\* read_group: `for b in batches: ... for r_start, r_count in ranges:` the
\* ranges in reading order, each with the batch it belongs to
RECURSIVE SpansFrom(_, _, _, _)
SpansFrom(group, bs, j, p) ==
  IF j > Len(bs) THEN <<>>
  ELSE LET rs == Ranges(group, bs[j], p)
       IN  [n \in 1..Len(rs) |->
              [batch |-> bs[j], r_start |-> rs[n].r_start,
               r_count |-> rs[n].r_count]]
           \o SpansFrom(group, bs, j + 1, p)

Spans(group, p) == SpansFrom(group, Batches(group, p), 1, p)

\* Variant of the coverage test that lets every definition of the batch through
InRange_Any(d, r_start, r_count) == TRUE

\* `if addr < r_start or (addr + reg_len) > (r_start + r_count): continue`
InRange(d, r_start, r_count) ==
  ~(d.address < r_start \/ DefEnd(d) > r_start + r_count)

\* registers[j] of a list of n words (negative j counts from the end;
\* IndexError otherwise)
IndexOk(n, j) == -n <= j /\ j < n

\* _decode_registers(registers, idx, data_type) is not None, for n words
Decodes(n, idx, data_type) ==
  IF data_type = "uint32" THEN IndexOk(n, idx) /\ IndexOk(n, idx + 1)
  ELSE IndexOk(n, idx)

\* Variant of the decoding loop that gives up the range when the response is
\* shorter than the range
KeysOf_WholeOrNothing(group, sp, n) ==
  IF n < sp.r_count THEN {}
  ELSE {sp.batch[j] : j \in
          {j \in 1..Len(sp.batch) :
             InRange(group[sp.batch[j]], sp.r_start, sp.r_count)}}

\* The keys one range adds to `results` from a response of n words
KeysOf(group, sp, n) ==
  {sp.batch[j] : j \in
     {j \in 1..Len(sp.batch) :
        LET d == group[sp.batch[j]]
        IN  /\ InRange(d, sp.r_start, sp.r_count)
            /\ Decodes(n, d.address - sp.r_start, d.data_type)}}

\* What the response to a range holds: all the words asked for, one word
\* less, or nothing usable (error response or exception: the range is skipped)
ResponseKinds == {"full", "short", "failed"}

InitRegisterMap ==
  /\ \E p \in {GATEWAY_PROFILE_GENERIC, GATEWAY_PROFILE_SAVE_CONNECT} :
       /\ InitClient(p)
       /\ backoffRun = NoBackoff(PROFILE_CONFIG[p].backoff_base_s)
       /\ \E g \in SortedGroups :
            rmap = [profile |-> p, group |-> g, pos |-> 0, words |-> 0,
                    results |-> {}]
  /\ dec = NoDecode
  /\ temp = NoTemp
  /\ drv = NoDerived
  /\ shim = NoShim
  /\ cyc = NoCycle

\* One turn of `for r_start, r_count in ranges:` the next range is read and the
\* definitions it covers are decoded into `results`
ReadRange(kind) ==
  /\ rmap.pos < Len(Spans(rmap.group, rmap.profile))
  /\ LET sp == Spans(rmap.group, rmap.profile)[rmap.pos + 1]
         n == IF kind = "full" THEN sp.r_count
              ELSE IF kind = "short" THEN sp.r_count - 1 ELSE 0
     IN  rmap' = [rmap EXCEPT !.pos = rmap.pos + 1,
                              !.words = IF kind = "failed" THEN -1 ELSE n,
                              !.results = IF kind = "failed" THEN rmap.results
                                          ELSE rmap.results \union
                                               KeysOf(rmap.group, sp, n)]
  /\ UNCHANGED <<clientState, backoffRun, dec, temp, drv, shim, cyc>>

NextRegisterMap == \E kind \in ResponseKinds : ReadRange(kind)

SpecRegisterMap == InitRegisterMap /\ [][NextRegisterMap]_vars

(***************************************************************************)
(* _decode_registers on its own.  A decoded value is held as two halves,    *)
(* standing for hi * 65536 + lo; `none` stands for the return value None    *)
(***************************************************************************)
MaxWord == 65535

\* data_type strings; "float32" stands for every string the function does not
\* know
DecodeTypes == {"int16", "uint16", "uint32", "float32"}

\* Words next to the ends of the signed and unsigned ranges
EdgeWords == {0, 1, 2, 32767, 32768, 65535}
HighWords == {0, 2, 65535}

\* `x & 0xFFFF` for a word x >= 0
Low16(x) == x % 65536

\* registers[j]: j counts from the end when negative; only evaluated where
\* IndexOk holds
Item(registers, j) ==
  IF j >= 0 THEN registers[j + 1] ELSE registers[Len(registers) + j + 1]

NoneValue == [none |-> TRUE, hi |-> 0, lo |-> 0]
IntValue(h, l) == [none |-> FALSE, hi |-> h, lo |-> l]

\* Variant of the uint32 branch that takes the word at idx as the high half
DecodeRegisters_HighFirst(registers, idx, data_type) ==
  LET n == Len(registers)
  IN  IF data_type = "int16"
      THEN IF ~IndexOk(n, idx) THEN NoneValue
           ELSE LET val == Low16(Item(registers, idx))
                IN  IntValue(0, IF val >= 32768 THEN val - 65536 ELSE val)
      ELSE IF data_type = "uint16"
      THEN IF ~IndexOk(n, idx) THEN NoneValue
           ELSE IntValue(0, Low16(Item(registers, idx)))
      ELSE IF data_type = "uint32"
      THEN IF ~(IndexOk(n, idx) /\ IndexOk(n, idx + 1)) THEN NoneValue
           ELSE IntValue(Low16(Item(registers, idx)),
                         Low16(Item(registers, idx + 1)))
      ELSE NoneValue

\* _decode_registers(registers, idx, data_type): an IndexError is caught and
\* gives None, as does a data_type that is none of the three
DecodeRegisters(registers, idx, data_type) ==
  LET n == Len(registers)
  IN  IF data_type = "int16"
      THEN IF ~IndexOk(n, idx) THEN NoneValue
           ELSE LET val == Low16(Item(registers, idx))
                IN  IntValue(0, IF val >= 32768 THEN val - 65536 ELSE val)
      ELSE IF data_type = "uint16"
      THEN IF ~IndexOk(n, idx) THEN NoneValue
           ELSE IntValue(0, Low16(Item(registers, idx)))
      ELSE IF data_type = "uint32"
      THEN IF ~(IndexOk(n, idx) /\ IndexOk(n, idx + 1)) THEN NoneValue
           ELSE \* lo = registers[idx], hi = registers[idx + 1]; (hi << 16) | lo
                IntValue(Low16(Item(registers, idx + 1)),
                         Low16(Item(registers, idx)))
      ELSE NoneValue

\* _decode_registers is called with these arguments
DecodeCall(r, i, dt) ==
  dec = [registers |-> r, idx |-> i, data_type |-> dt, done |-> FALSE,
         none |-> TRUE, hi |-> 0, lo |-> 0]

\* Lists of at most two edge words
ShortLists ==
  {<<>>} \union {<<a>> : a \in EdgeWords}
         \union {<<a, b>> : a \in EdgeWords, b \in EdgeWords}

\* The calls considered: every word 0..MaxWord as the word of an int16 /
\* uint16 / unknown type and as either half of a uint32, and every index from
\* before the list to behind it on short lists of edge words
InitDecode ==
  /\ InitClient(GATEWAY_PROFILE_GENERIC)
  /\ backoffRun = NoBackoff(0)
  /\ rmap = NoMap(GATEWAY_PROFILE_GENERIC)
  /\ temp = NoTemp
  /\ drv = NoDerived
  /\ shim = NoShim
  /\ cyc = NoCycle
  /\ \/ \E w \in 0..MaxWord : \E dt \in {"int16", "uint16", "float32"} :
          DecodeCall(<<w>>, 0, dt)
     \/ \E w \in 0..MaxWord : \E h \in HighWords :
          DecodeCall(<<w, h>>, 0, "uint32") \/ DecodeCall(<<h, w>>, 0, "uint32")
     \/ \E r \in ShortLists : \E i \in -3..2 : \E dt \in DecodeTypes :
          DecodeCall(r, i, dt)

\* The call returns
Decode ==
  /\ ~dec.done
  /\ LET v == DecodeRegisters(dec.registers, dec.idx, dec.data_type)
     IN  dec' = [dec EXCEPT !.done = TRUE, !.none = v.none, !.hi = v.hi,
                            !.lo = v.lo]
  /\ UNCHANGED <<clientState, backoffRun, rmap, temp, drv, shim, cyc>>

NextDecode == Decode

SpecDecode == InitDecode /\ [][NextDecode]_vars

(***************************************************************************)
(* write_0_1c on its own.  temp_c is given in hundredths of a degree, so    *)
(* that float(temp_c) * 10.0 is hundredths / 10                             *)
(***************************************************************************)
MaxHundredths == 3000

\* round(x) for x = n / 10: the nearest integer.  Halfway between two integers
\* the floating-point product decides (it is the tie itself, rounded to even,
\* or a neighbouring float, rounded to the nearer side): either neighbour
RoundTenth(n) ==
  IF n % 10 < 5 THEN {n \div 10}
  ELSE IF n % 10 > 5 THEN {(n \div 10) + 1}
  ELSE {n \div 10, (n \div 10) + 1}

\* Variant of write_0_1c without the clamp
ClampRaw_None(raw) == raw

\* `if raw < 0: raw = 0`
ClampRaw(raw) == IF raw < 0 THEN 0 ELSE raw

InitTemp ==
  /\ InitClient(GATEWAY_PROFILE_GENERIC)
  /\ backoffRun = NoBackoff(0)
  /\ rmap = NoMap(GATEWAY_PROFILE_GENERIC)
  /\ dec = NoDecode
  /\ drv = NoDerived
  /\ shim = NoShim
  /\ cyc = NoCycle
  /\ \E h \in -MaxHundredths..MaxHundredths :
       temp = [hundredths |-> h, done |-> FALSE, raw |-> 0]

\* write_0_1c up to `await self.write_register(address, raw)`
WriteTemp ==
  /\ ~temp.done
  /\ \E r \in RoundTenth(temp.hundredths) :
       temp' = [temp EXCEPT !.done = TRUE, !.raw = ClampRaw(r)]
  /\ UNCHANGED <<clientState, backoffRun, rmap, dec, drv, shim, cyc>>

NextTemp == WriteTemp

SpecTemp == InitTemp /\ [][NextTemp]_vars

(***************************************************************************)
(* SaveModel.compute_derived on its own.  A value of `data` is absent (or    *)
(* None), a string that is no number, or a number given in tenths (the       *)
(* results of read_register_map are raw * scale + offset, possibly floats)   *)
(***************************************************************************)
MaxDays == 600

DerivedInputs ==
  {"time_to_filter_replacement", "filter_alarm", "filter_warning_alarm",
   "summer_winter_operation_1_0", "iaq_level", "supply_air_room_exhaust_reg",
   "mode_status_register", "manual_mode_command_register",
   "extractor_fan_pwr_fact", "supply_air_fan_pwr_fact"}

Absent == [kind |-> "absent", tenths |-> 0]
Text == [kind |-> "text", tenths |-> 0]
Num(t) == [kind |-> "num", tenths |-> t]
Whole(n) == Num(10 * n)

\* _to_int(value, default): int(float(value)) truncates toward zero; None
\* raises TypeError and a string that is no number ValueError, both caught
ToInt(value, default) ==
  IF value.kind # "num" THEN default
  ELSE IF value.tenths >= 0 THEN value.tenths \div 10
  ELSE -((-value.tenths) \div 10)

\* compute_derived: days and months
DaysOf(seconds) == IF seconds > 0 THEN seconds \div 86400 ELSE 0
MonthsOf(seconds) == DaysOf(seconds) \div 30

\* Variant of the status test that looks at the warning flag first
StatusOf_WarningFirst(alarm, warning, seconds) ==
  IF warning = 1 THEN "warning"
  ELSE IF alarm = 1 THEN "replace_filter"
  ELSE IF seconds <= 0 THEN "unknown"
  ELSE "ok"

\* compute_derived: next_filter_change_status
StatusOf(alarm, warning, seconds) ==
  IF alarm = 1 THEN "replace_filter"
  ELSE IF warning = 1 THEN "warning"
  ELSE IF seconds <= 0 THEN "unknown"
  ELSE "ok"

\* Variant of the bucket test with `days >= 548`
BucketOf_From548(seconds, days) ==
  IF seconds <= 0 THEN "unknown"
  ELSE IF days >= 548 THEN "more_than_18_months"
  ELSE IF days >= 31 THEN "months"
  ELSE "days"

\* compute_derived: next_filter_change_bucket
BucketOf(seconds, days) ==
  IF seconds <= 0 THEN "unknown"
  ELSE IF days > 548 THEN "more_than_18_months"
  ELSE IF days >= 31 THEN "months"
  ELSE "days"

\* compute_derived: next_filter_change (legacy text; the number printed in it
\* is n)
LegacyText(alarm, warning, seconds, days, months) ==
  IF alarm = 1 THEN [text |-> "Replace filter!", n |-> 0]
  ELSE IF warning = 1 THEN [text |-> "Filter warning", n |-> 0]
  ELSE IF seconds <= 0 THEN [text |-> "Unknown", n |-> 0]
  ELSE IF days > 548 THEN [text |-> "More than 18 months", n |-> 0]
  ELSE IF days >= 31 THEN [text |-> "months", n |-> months]
  ELSE [text |-> "days", n |-> days]

\* SaveModel.STATUS_MODE_TO_KEY
STATUS_MODE_TO_KEY ==
  <<"manual", "party", "boost", "fireplace", "away", "holiday", "cooker_hood",
    "vacuum_cleaner", "cdi1", "cdi2", "cdi3", "pressure_guard">>

\* SaveModel.STATUS_MODE_TO_KEY.get(mode, "unknown"); key 0 maps to "auto"
StatusModeKey(mode) ==
  IF mode = 0 THEN "auto"
  ELSE IF mode \in 1..12 THEN STATUS_MODE_TO_KEY[mode]
  ELSE "unknown"

\* compute_derived: the manual sub-label
ManualText(man) ==
  IF man = 0 THEN "manual_stop"
  ELSE IF man = 2 THEN "manual_low"
  ELSE IF man = 3 THEN "manual_normal"
  ELSE IF man = 4 THEN "manual_high"
  ELSE "manual_unknown"

\* Variant of the mode text without the manual branch
ModeText_TableOnly(mode, man) ==
  IF mode = 0 THEN "auto_demand_control" ELSE StatusModeKey(mode)

\* compute_derived: mode_status_text
ModeText(mode, man) ==
  IF mode = 0 THEN "auto_demand_control"
  ELSE IF mode = 1 THEN ManualText(man)
  ELSE StatusModeKey(mode)

SeasonText(season) ==
  IF season = 0 THEN "summer" ELSE IF season = 1 THEN "winter" ELSE "unknown"

IaqText(v) ==
  IF v = 0 THEN "economy" ELSE IF v = 1 THEN "good"
  ELSE IF v = 2 THEN "improve" ELSE "unknown"

RegulationText(reg_mode) ==
  IF reg_mode = 0 THEN "supply_air" ELSE IF reg_mode = 1 THEN "room"
  ELSE IF reg_mode = 2 THEN "exhaust" ELSE "unknown"

\* round(p * self.flow_factor): flow_factor is qv_max / 100.0 when qv_max is
\* set (0 stands for None) and 3.0 otherwise; halfway between two integers
\* the floating-point product decides
FlowRates(p, qv_max) ==
  IF qv_max = 0 THEN {3 * p}
  ELSE LET n == p * qv_max
       IN  IF n % 100 < 50 THEN {n \div 100}
           ELSE IF n % 100 > 50 THEN {(n \div 100) + 1}
           ELSE {n \div 100, (n \div 100) + 1}

\* Variant of compute_derived in which a value that is no number raises
DerivedRaises_OnText(data) == \E k \in DerivedInputs : data[k].kind = "text"

\* compute_derived raises: no input does that (see ToInt)
DerivedRaises(data) == FALSE

\* The dict compute_derived returns, for the flow rates fe and fs
DerivedOut(data, fe, fs) ==
  LET seconds == ToInt(data["time_to_filter_replacement"], 0)
      alarm == ToInt(data["filter_alarm"], 0)
      warning == ToInt(data["filter_warning_alarm"], 0)
      days == DaysOf(seconds)
      months == MonthsOf(seconds)
  IN  [filter_time_remaining_s |-> seconds,
       filter_time_remaining_days |-> days,
       filter_time_remaining_months |-> months,
       next_filter_change_status |-> StatusOf(alarm, warning, seconds),
       next_filter_change_bucket |-> BucketOf(seconds, days),
       next_filter_change |->
         LegacyText(alarm, warning, seconds, days, months),
       active_season |->
         SeasonText(ToInt(data["summer_winter_operation_1_0"], -1)),
       iaq_level_text |-> IaqText(ToInt(data["iaq_level"], -1)),
       regulation_mode_text |->
         RegulationText(ToInt(data["supply_air_room_exhaust_reg"], -1)),
       mode_status_text |->
         ModeText(ToInt(data["mode_status_register"], -1),
                  ToInt(data["manual_mode_command_register"], -1)),
       exhaust_air_flow_rate |-> fe,
       supply_air_flow_rate |-> fs]

NoOut == DerivedOut([k \in DerivedInputs |-> Absent], 0, 0)

\* Values of the seconds counter: whole days up to MaxDays, the last second
\* of each of these days, the two values named in the specification, zero and
\* negative values, and fractions
SecondsValues ==
  {Absent, Text, Whole(-1), Num(-5), Num(5), Whole(2000000), Whole(50000000)}
  \union {Whole(d * 86400) : d \in 0..MaxDays}
  \union {Num(10 * (d * 86400 + 86399) + 9) : d \in 0..MaxDays}

FlagValues == {Absent, Text, Whole(0), Whole(1), Num(19), Whole(2), Whole(-1)}
CodeValues == {Absent, Text, Num(-5)} \union {Whole(n) : n \in -1..14}
AnyKind == {Absent, Text, Whole(1)}
QvMaxValues == {0, 250}

DerivedCall(d, q) ==
  drv = [called |-> TRUE, qv_max |-> q, data |-> d, done |-> FALSE,
         raised |-> FALSE, out |-> NoOut]

AllAbsent == [k \in DerivedInputs |-> Absent]

\* The calls considered: the filter inputs over all their values; the mode
\* inputs over all their values; every input absent, no number or a number
InitDerived ==
  /\ InitClient(GATEWAY_PROFILE_GENERIC)
  /\ backoffRun = NoBackoff(0)
  /\ rmap = NoMap(GATEWAY_PROFILE_GENERIC)
  /\ dec = NoDecode
  /\ temp = NoTemp
  /\ shim = NoShim
  /\ cyc = NoCycle
  /\ \/ \E sec \in SecondsValues : \E a \in FlagValues : \E w \in FlagValues :
          DerivedCall([AllAbsent EXCEPT
                         !["time_to_filter_replacement"] = sec,
                         !["filter_alarm"] = a,
                         !["filter_warning_alarm"] = w], 0)
     \/ \E m \in CodeValues : \E n \in CodeValues :
          DerivedCall([AllAbsent EXCEPT
                         !["mode_status_register"] = m,
                         !["manual_mode_command_register"] = n], 0)
     \/ \E d \in [DerivedInputs -> AnyKind] : \E q \in QvMaxValues :
          DerivedCall(d, q)

\* compute_derived returns (or raises)
ComputeDerived ==
  /\ drv.called /\ ~drv.done
  /\ IF DerivedRaises(drv.data)
     THEN drv' = [drv EXCEPT !.done = TRUE, !.raised = TRUE]
     ELSE \E fe \in FlowRates(ToInt(drv.data["extractor_fan_pwr_fact"], 0),
                              drv.qv_max) :
          \E fs \in FlowRates(ToInt(drv.data["supply_air_fan_pwr_fact"], 0),
                              drv.qv_max) :
            drv' = [drv EXCEPT !.done = TRUE,
                               !.out = DerivedOut(drv.data, fe, fs)]
  /\ UNCHANGED <<clientState, backoffRun, rmap, dec, temp, shim, cyc>>

NextDerived == ComputeDerived

SpecDerived == InitDerived /\ [][NextDerived]_vars

(***************************************************************************)
(* _call_read / _call_write on their own, with what read_register_map and   *)
(* write_register make of the way the call ends.  The transport accepts a   *)
(* set of call shapes; a shape it does not accept raises TypeError before   *)
(* anything is sent                                                         *)
(***************************************************************************)
IdKeywords == <<"slave", "unit", "device_id", "unit_id">>

\* A call shape: how count (or value) is passed, and how self.slave is passed
\* ("none": not at all; "positional": as third argument)
Shape(arg, id) == [arg |-> arg, id |-> id]

\* _call_read: the calls in the order of the code
ReadShapes ==
  [k \in 1..4 |-> Shape("keyword", IdKeywords[k])]
  \o <<Shape("keyword", "none")>>
  \o [k \in 1..4 |-> Shape("positional", IdKeywords[k])]
  \o <<Shape("positional", "none"), Shape("positional", "positional")>>

\* _call_write: the calls in the order of the code
WriteShapes ==
  [k \in 1..4 |-> Shape("positional", IdKeywords[k])]
  \o <<Shape("positional", "none"), Shape("positional", "positional")>>

ShapesOf(kind) == IF kind = "read" THEN ReadShapes ELSE WriteShapes

\* Variant of the shim that goes on to the last shape whatever is accepted
ShapeOutcome_KeepTrying(n, accepts, ends, last) ==
  IF n < last THEN "pending"
  ELSE IF n \in accepts THEN ends ELSE "TypeError"

\* One call of the shim: an accepted shape ends the shim with what the call
\* does (`return await fn(...)`: a response, or an exception that is no
\* TypeError and propagates); a rejected shape is passed over (`except
\* TypeError: pass`), except the last one, whose TypeError propagates
ShapeOutcome(n, accepts, ends, last) ==
  IF n \in accepts THEN ends
  ELSE IF n = last THEN "TypeError"
  ELSE "pending"

\* What the public operation makes of the end of the call.
\* read_register_map (a holding-class range): `except Exception` around
\* _do_read, then failed -> `continue`: the range is left out and the loop
\* goes on.  write_register: an exception of _do_write propagates
PublicOutcome(kind, result) ==
  IF result = "rr" THEN "returned"
  ELSE IF kind = "read" THEN "span_omitted"
  ELSE "raised"

InitShim ==
  /\ InitClient(GATEWAY_PROFILE_GENERIC)
  /\ backoffRun = NoBackoff(0)
  /\ rmap = NoMap(GATEWAY_PROFILE_GENERIC)
  /\ dec = NoDecode
  /\ temp = NoTemp
  /\ drv = NoDerived
  /\ cyc = NoCycle
  /\ \E kind \in {"read", "write"} :
     \E accepts \in SUBSET (1..Len(ShapesOf(kind))) :
     \E ends \in {"rr", "exc"} :
       shim = [called |-> TRUE, kind |-> kind, accepts |-> accepts,
               ends |-> ends, tried |-> <<>>, calls |-> 0,
               result |-> "pending", public |-> "pending"]

\* The next call of _call_read / _call_write
TryShape ==
  /\ shim.called /\ shim.result = "pending"
  /\ LET n == Len(shim.tried) + 1
     IN  shim' = [shim EXCEPT
                    !.tried = Append(shim.tried, n),
                    !.calls = IF n \in shim.accepts THEN shim.calls + 1
                              ELSE shim.calls,
                    !.result = ShapeOutcome(n, shim.accepts, shim.ends,
                                            Len(ShapesOf(shim.kind)))]
  /\ UNCHANGED <<clientState, backoffRun, rmap, dec, temp, drv, cyc>>

\* read_register_map / write_register after _do_read / _do_write
PublicOp ==
  /\ shim.called /\ shim.result # "pending" /\ shim.public = "pending"
  /\ shim' = [shim EXCEPT !.public = PublicOutcome(shim.kind, shim.result)]
  /\ UNCHANGED <<clientState, backoffRun, rmap, dec, temp, drv, cyc>>

NextShim == TryShape \/ PublicOp

SpecShim == InitShim /\ [][NextShim]_vars

(***************************************************************************)
(* read_register_map on its own, both register classes: the reads of one   *)
(* call in the order they are issued, for every bounded list of            *)
(* definitions in every order                                              *)
(***************************************************************************)
MaxCycleDefs == 3

InputTypes == {"holding", "input"}

\* Definitions as passed in: address, data_type and input_type
CycleDefs == [address : 0..MaxAddress, data_type : DataTypes,
              input_type : InputTypes]

\* Variant of the sort that leaves the definitions as they were passed in
InsertByAddress_Append(s, d) == Append(s, d)

\* One step of the stable sort: d goes behind the definitions whose address
\* is not greater
InsertByAddress(s, d) ==
  LET k == Cardinality({i \in 1..Len(s) : s[i].address <= d.address})
  IN  SubSeq(s, 1, k) \o <<d>> \o SubSeq(s, k + 1, Len(s))

\* `defs_sorted = sorted(register_defs, key=lambda d: int(d["address"]))`
RECURSIVE DefsSorted(_)
DefsSorted(register_defs) ==
  IF register_defs = <<>> THEN <<>>
  ELSE LET n == Len(register_defs)
       IN  InsertByAddress(DefsSorted(SubSeq(register_defs, 1, n - 1)),
                           register_defs[n])

\* `holding = [d for d in defs_sorted if ... == "holding"]`, and `inputs`
GroupOf(register_defs, group_type) ==
  SelectSeq(DefsSorted(register_defs),
            LAMBDA d : d.input_type = group_type)

\* read_group(group, group_type): the ranges it reads, in reading order
GroupReads(register_defs, group_type, p) ==
  LET sp == Spans(GroupOf(register_defs, group_type), p)
  IN  [n \in 1..Len(sp) |->
         [group_type |-> group_type, r_start |-> sp[n].r_start,
          r_count |-> sp[n].r_count]]

\* `await read_group(holding, "holding")` then
\* `await read_group(inputs, "input")`
CycleReads(register_defs, p) ==
  GroupReads(register_defs, "holding", p) \o
  GroupReads(register_defs, "input", p)

InitCycle ==
  /\ InitClient(GATEWAY_PROFILE_GENERIC)
  /\ backoffRun = NoBackoff(0)
  /\ rmap = NoMap(GATEWAY_PROFILE_GENERIC)
  /\ dec = NoDecode
  /\ temp = NoTemp
  /\ drv = NoDerived
  /\ shim = NoShim
  /\ \E p \in {GATEWAY_PROFILE_GENERIC, GATEWAY_PROFILE_SAVE_CONNECT} :
     \E n \in 1..MaxCycleDefs :
     \E defs \in [1..n -> CycleDefs] :
       cyc = [called |-> TRUE, profile |-> p, register_defs |-> defs,
              force |-> ForceFromProfile(p), issued |-> <<>>, pos |-> 0,
              awaited |-> 0, fallback |-> FALSE]

\* `rr = await self._do_read(fn_name, r_start, r_count)` for the next range:
\* the read is issued and awaited
IssueRead ==
  /\ cyc.called /\ cyc.awaited = 0
  /\ cyc.pos < Len(CycleReads(cyc.register_defs, cyc.profile))
  /\ LET r == CycleReads(cyc.register_defs, cyc.profile)[cyc.pos + 1]
     IN  cyc' = [cyc EXCEPT
                   !.pos = cyc.pos + 1,
                   !.awaited = cyc.awaited + 1,
                   !.fallback = FALSE,
                   !.issued = Append(cyc.issued,
                                [group_type |-> r.group_type,
                                 fn_name |-> FnName(r.group_type, cyc.force),
                                 r_start |-> r.r_start,
                                 r_count |-> r.r_count])]
  /\ UNCHANGED <<clientState, backoffRun, rmap, dec, temp, drv, shim>>

\* The awaited read ends, with a good response (o = "ok") or not.  A failed
\* read_input_registers with the flag unset is followed at once by the
\* fallback read of the same range; otherwise the range is done
ReadEnds(o) ==
  /\ cyc.called /\ cyc.awaited > 0
  /\ LET last == cyc.issued[Len(cyc.issued)]
         tryFallback == /\ ~cyc.fallback /\ ReadFailed(o)
                        /\ last.fn_name = "read_input_registers"
                        /\ ~cyc.force
     IN  IF tryFallback
         THEN cyc' = [cyc EXCEPT
                        !.fallback = TRUE,
                        !.issued = Append(cyc.issued,
                           [last EXCEPT !.fn_name = "read_holding_registers"])]
         ELSE cyc' = [cyc EXCEPT
                        !.awaited = cyc.awaited - 1,
                        !.fallback = FALSE,
                        !.force = FlagAfterSpan(cyc.fallback, FallbackGood(o),
                                                cyc.force)]
  /\ UNCHANGED <<clientState, backoffRun, rmap, dec, temp, drv, shim>>

NextCycle == IssueRead \/ \E o \in {"ok", "err"} : ReadEnds(o)

SpecCycle == InitCycle /\ [][NextCycle]_vars

(***************************************************************************)
(* Specification                                                           *)
(***************************************************************************)
Next ==
  \/ PollStart
  \/ NextSpan
  \/ PollHaveRR
  \/ PollReturn
  \/ \E w \in Writers : WriteStart(w)
  \/ \E w \in Writers : WriteHaveRR(w)
  \/ \E w \in Writers : WriteReturn(w)
  \/ \E c \in Callers : Enqueue(c)
  \/ \E c \in Callers : DirectStart(c)
  \/ \E c \in Callers : FutDone(c)
  \/ \E c \in Callers : LockGranted(c)
  \/ \E t \in Ctx : Ensure(t)
  \/ \E t \in Ctx, r \in ConnectOutcomes : ConnectReturn(t, r)
  \/ \E t \in Ctx : SettleDone(t)
  \/ \E t \in Ctx : GotClient(t)
  \/ \E t \in Ctx : Call(t)
  \/ \E t \in Ctx, o \in Outcomes : Response(t, o)
  \/ \E t \in Ctx : Failed(t)
  \/ \E k \in Workers : BackoffDone(k)
  \/ \E t \in Ctx : MsgWaitDone(t)
  \/ \E k \in Workers : WorkerStart(k)
  \/ \E k \in Workers : WorkerLoop(k)
  \/ \E k \in Workers : WorkerWake(k)
  \/ \E k \in Workers : WorkerDeq(k)
  \/ \E k \in Workers : PacingDone(k)
  \/ \E k \in Workers : CancelDeliver(k)
  \/ CloseStart
  \/ CloseResume

\* The steps of a client with the save_connect profile: every request runs in
\* the queue worker
NextSafe ==
  \/ PollStart
  \/ NextSpan
  \/ PollHaveRR
  \/ PollReturn
  \/ \E w \in Writers : WriteStart(w)
  \/ \E w \in Writers : WriteHaveRR(w)
  \/ \E w \in Writers : WriteReturn(w)
  \/ \E c \in Callers : Enqueue(c)
  \/ \E c \in Callers : FutDone(c)
  \/ \E k \in Workers : Ensure(k)
  \/ \E k \in Workers, r \in ConnectOutcomes : ConnectReturn(k, r)
  \/ \E k \in Workers : SettleDone(k)
  \/ \E k \in Workers : GotClient(k)
  \/ \E k \in Workers : Call(k)
  \/ \E k \in Workers, o \in Outcomes : Response(k, o)
  \/ \E k \in Workers : Failed(k)
  \/ \E k \in Workers : BackoffDone(k)
  \/ \E k \in Workers : MsgWaitDone(k)
  \/ \E k \in Workers : WorkerStart(k)
  \/ \E k \in Workers : WorkerLoop(k)
  \/ \E k \in Workers : WorkerWake(k)
  \/ \E k \in Workers : WorkerDeq(k)
  \/ \E k \in Workers : PacingDone(k)
  \/ \E k \in Workers : CancelDeliver(k)
  \/ CloseStart
  \/ CloseResume

\* The steps of a client with the generic profile: every request runs in its
\* caller, under self._io_lock; there is neither queue nor worker
NextGeneric ==
  \/ PollStart
  \/ NextSpan
  \/ PollHaveRR
  \/ PollReturn
  \/ \E w \in Writers : WriteStart(w)
  \/ \E w \in Writers : WriteHaveRR(w)
  \/ \E w \in Writers : WriteReturn(w)
  \/ \E c \in Callers : DirectStart(c)
  \/ \E c \in Callers : LockGranted(c)
  \/ \E c \in Callers : Ensure(c)
  \/ \E c \in Callers, r \in ConnectOutcomes : ConnectReturn(c, r)
  \/ \E c \in Callers : GotClient(c)
  \/ \E c \in Callers : Call(c)
  \/ \E c \in Callers, o \in Outcomes : Response(c, o)
  \/ \E c \in Callers : Failed(c)
  \/ \E c \in Callers : MsgWaitDone(c)
  \/ CloseStart

\* The steps of a save_connect client on which async_close is not called
NextQueue ==
  \/ PollStart
  \/ NextSpan
  \/ PollHaveRR
  \/ PollReturn
  \/ \E w \in Writers : WriteStart(w)
  \/ \E w \in Writers : WriteHaveRR(w)
  \/ \E w \in Writers : WriteReturn(w)
  \/ \E c \in Callers : Enqueue(c)
  \/ \E c \in Callers : FutDone(c)
  \/ \E k \in Workers : Ensure(k)
  \/ \E k \in Workers, r \in ConnectOutcomes : ConnectReturn(k, r)
  \/ \E k \in Workers : SettleDone(k)
  \/ \E k \in Workers : GotClient(k)
  \/ \E k \in Workers : Call(k)
  \/ \E k \in Workers, o \in Outcomes : Response(k, o)
  \/ \E k \in Workers : Failed(k)
  \/ \E k \in Workers : BackoffDone(k)
  \/ \E k \in Workers : MsgWaitDone(k)
  \/ \E k \in Workers : WorkerStart(k)
  \/ \E k \in Workers : WorkerLoop(k)
  \/ \E k \in Workers : WorkerWake(k)
  \/ \E k \in Workers : WorkerDeq(k)
  \/ \E k \in Workers : PacingDone(k)

\* What the event loop and the transport do sooner or later: a sleep ends,
\* every connect and request call returns or raises, and a task that is ready
\* is run (the loop runs its ready callbacks in the order they became ready,
\* so a task that is ready again and again while others run gets its turn:
\* strong fairness).  Nothing obliges a caller to call read_register_map or
\* write_register.
WorkerStep(k) ==
  \/ WorkerStart(k) \/ WorkerLoop(k) \/ WorkerWake(k) \/ WorkerDeq(k)
  \/ Ensure(k) \/ (\E r \in ConnectOutcomes : ConnectReturn(k, r))
  \/ SettleDone(k) \/ GotClient(k) \/ Call(k)
  \/ (\E o \in Outcomes : Response(k, o))
  \/ Failed(k) \/ BackoffDone(k) \/ MsgWaitDone(k) \/ PacingDone(k)

CallerStep(c) ==
  \/ Enqueue(c) \/ FutDone(c)
  \/ (c = Poller /\ (NextSpan \/ PollHaveRR \/ PollReturn))
  \/ (c \in Writers /\ (WriteHaveRR(c) \/ WriteReturn(c)))

Fairness ==
  /\ \A k \in Workers : SF_vars(WorkerStep(k))
  /\ \A c \in Callers : SF_vars(CallerStep(c))

\* The steps of a save_connect client whose callers can be cancelled
NextCancel ==
  \/ NextQueue
  \/ \E c \in Callers : CancelCaller(c)
  \/ \E c \in Callers : CallAgain(c)

Spec == Init /\ [][Next]_vars
SpecCancel == InitFor(GATEWAY_PROFILE_SAVE_CONNECT) /\ [][NextCancel]_vars
SpecQueueLive ==
  InitFor(GATEWAY_PROFILE_SAVE_CONNECT) /\ [][NextQueue]_vars /\ Fairness
SpecSafe == InitFor(GATEWAY_PROFILE_SAVE_CONNECT) /\ [][NextSafe]_vars
SpecGeneric == InitFor(GATEWAY_PROFILE_GENERIC) /\ [][NextGeneric]_vars

TypeOK ==
  /\ client \in {"none", "disc", "conn"}
  /\ running \in Tasks \union {"none"}
  /\ worker_task \in Workers \union {"none"}
  /\ unfinished_tasks \in 0..(Cardinality(Callers) + Cardinality(Workers))
  /\ Len(queue) <= Cardinality(Callers)
  /\ \A t \in Ctx : attempt[t] \in 0..MaxAttempts
  /\ sinceResp \in -1..SPEC_WRITE_COOLDOWN_S
  /\ writeOk \in {"no", "resp", "acked"}
  /\ sinceOp \in -1..DEFAULT_SAVE_CONNECT_PACING_S

(***************************************************************************)
(* Properties                                                              *)
(***************************************************************************)
ReadFns == {"read_input_registers", "read_holding_registers"}

\* Context t sends its request in this step (_call_read / _call_write on a
\* connected client)
Issues(t) == pc[t] = "call" /\ pc'[t] = "io"

\* C1: sticky fallback.  Once an input-class span that failed with
\* read_input_registers has been read with read_holding_registers, the flag
\* stays set and no span is requested with read_input_registers any more, in
\* the same and in every later read_register_map call.
C1_StickyFallback ==
  learned => /\ force_input_as_holding
             /\ req[Poller] # "read_input_registers"

\* C1 happens: in a call after the one that learned the fallback, the first
\* input-class span is on the wire with read_holding_registers
C1_Witness ==
  /\ learned /\ ~fallback
  /\ span = 2 /\ PollSpans[span] = "input"
  /\ pc[Poller] = "io" /\ req[Poller] = "read_holding_registers"

\* C2: under save_connect the worker takes the operations in the order they
\* were enqueued: an operation that starts is the oldest one not yet started,
\* and (no async_close having been called) every operation enqueued before it
\* has left the device.
C2_QueueOrder ==
  [][\A k \in Workers :
       (op'[k] # op[k] /\ op'[k] # "none") =>
          /\ enqOrder # <<>>
          /\ op'[k] = Head(enqOrder)
          /\ pc[Closer] = "idle" => \A k2 \in Workers : op[k2] = "none"]_vars

\* C2 happens: the operation enqueued first is on the wire while one enqueued
\* after it waits in the queue
C2_Witness ==
  \E k \in Workers :
    /\ op[k] # "none" /\ pc[k] = "io"
    /\ enqOrder # <<>> /\ pc[Closer] = "idle"

\* C3: under save_connect at most one operation (with all its attempts and
\* reconnects) is in flight, for every interleaving of read_register_map and
\* write_register callers.
C3_OneInFlight ==
  pc[Closer] = "idle" =>
    /\ Cardinality({k \in Workers : op[k] # "none"}) <= 1
    /\ Cardinality({k \in Workers : WorkerAlive(k)}) <= 1

\* C3 happens: a retry of one operation is on the wire while another caller's
\* operation waits in the queue
C3_Witness ==
  \E k \in Workers :
    /\ pc[Closer] = "idle"
    /\ op[k] # "none" /\ attempt[k] > 0 /\ pc[k] = "io"
    /\ queue # <<>>

\* C4: read_register_map never raises because of a read failure: it returns,
\* and the mapping holds exactly the spans whose read succeeded.
C4_NeverRaises ==
  pc[Poller] = "poll_ret" => pollOut = "returned" /\ results = spanGood

\* C5: when write_register ends, it has returned normally exactly if the final
\* response of the device to the write is a good response; an error response,
\* a missing response and an exception end it with an exception.
C5_WriteConfirmed ==
  \A w \in Writers :
    pc[w] = "write_ret" =>
      /\ wOut[w] \in {"returned", "raised"}
      /\ wOut[w] = "returned" <=> finalResp[w] = "ok"

\* C5 happens: write_register has returned normally
C5_Witness ==
  \E w \in Writers : pc[w] = "write_ret" /\ wOut[w] = "returned"

\* The least time between the response to a successful write and the next
\* request once write_register has returned: the message wait, and with the
\* queue the pacing sleep of the worker as well
GapAfterWrite ==
  IF use_queue /\ pc[Closer] = "idle"
  THEN DEFAULT_MESSAGE_WAIT_S + pacing_s
  ELSE DEFAULT_MESSAGE_WAIT_S

LeftWaiting(c) ==
  /\ pc[c] = "await_fut" /\ fut[c] = "pending"
  /\ c \notin Range(queue)
  /\ \A k \in Workers : op[k] # c

\* C7: after async_close no caller is left waiting on a result that is never
\* set: its future is cancelled or resolved.
C7_CallersReleased ==
  \A c \in Callers : ~LeftWaiting(c)

\* C8: under save_connect an operation is attempted at most 5 times; an
\* attempt that does not fail ends the operation at once (the message wait
\* follows), and a backoff sleep follows failed attempts only.
C8_BoundedAttempts ==
  \A k \in Workers :
    /\ attempt[k] < DEFAULT_SAVE_CONNECT_RETRIES
    /\ lastOut[k] \in {"ok", "none"} => pc[k] = "msgwait"
    /\ pc[k] \in {"backoff", "after_backoff"} => lastOut[k] \in {"err", "exc"}
    /\ attempt[k] > 0 => lastOut[k] \in {"err", "exc"} \/ pc[k] = "msgwait"

\* C8 happens: the fifth attempt of an operation has failed
C8_Witness ==
  \E k \in Workers :
    /\ attempt[k] = DEFAULT_SAVE_CONNECT_RETRIES - 1
    /\ pc[k] = "backoff" /\ lastOut[k] \in {"err", "exc"}

\* C9: under save_connect every attempt after the first follows a forced
\* reconnect: the step that starts it leaves no client (closed, discarded,
\* _connected_once cleared) and goes to _ensure_client, and a request is sent
\* on a connected client only.
C9_ReconnectBeforeRetry ==
  [][\A k \in Workers :
       /\ attempt'[k] > attempt[k] =>
            /\ lastOut[k] \in {"err", "exc"}
            /\ client' = "none" /\ ~connected_once'
            /\ \A t \in Ctx : hnd'[t] # "cur"
            /\ pc'[k] = "ensure"
       /\ Issues(k) => hnd[k] = "cur" /\ client = "conn"]_vars

\* C9 happens: a second or later attempt is on the wire, on a new connection
C9_Witness ==
  \E k \in Workers :
    attempt[k] > 0 /\ pc[k] = "io" /\ hnd[k] = "cur" /\ client = "conn"

\* C10: the backoff after failed attempt n is min(base * 2^n, 5 s), with
\* base * 2^n * 1.5 for a busy gateway; it never exceeds 5 s, never decreases
\* from one attempt to the next and is 0 for a backoff base of 0.
C10_BackoffDelay ==
  backoffRun.attempt >= 0 =>
    LET raw == backoffRun.base * (2 ^ backoffRun.attempt)
        scaled == IF backoffRun.busy THEN (raw * 3) \div 2 ELSE raw
    IN  /\ backoffRun.delay = Min(scaled, BACKOFF_CAP_S)
        /\ backoffRun.delay <= BACKOFF_CAP_S
        /\ backoffRun.delay >= backoffRun.prev
        /\ backoffRun.base = 0 => backoffRun.delay = 0

\* C10 happens: the delay of a busy gateway has reached the cap, from a
\* smaller delay of the attempt before
C10_Witness ==
  /\ backoffRun.attempt >= 1 /\ backoffRun.busy
  /\ backoffRun.delay = BACKOFF_CAP_S
  /\ backoffRun.prev < backoffRun.delay
  /\ backoffRun.base = DEFAULT_SAVE_CONNECT_BACKOFF_BASE_S

AfterRequest == {"io", "failed", "msgwait", "have_rr", "write_ret"}

\* C12: under the generic profile write_register sends one write request at
\* most: once the request is out (or has failed) the writer never goes back to
\* connect or send again, it never sleeps a backoff and never discards the
\* client, and it ends with an exception when the request got an error response
\* or raised.
C12_GenericWriteOnce ==
  [][\A w \in Writers :
       /\ attempt'[w] = 0
       /\ pc'[w] # "backoff" /\ pc'[w] # "after_backoff"
       /\ (pc[w] \in AfterRequest /\ pc'[w] # pc[w]) =>
             pc'[w] \in (AfterRequest \ {"io"}) \union {"idle"}
       /\ (client # "none" /\ client' = "none") => pc'[Closer] # pc[Closer]
       /\ (pc'[w] = "write_ret" /\ finalResp'[w] \in {"err", "exc"}) =>
             wOut'[w] = "raised"]_vars

\* C12 happens: write_register ends with an exception after the one request
\* got an error response
C12_Witness ==
  \E w \in Writers :
    /\ gateway_profile = GATEWAY_PROFILE_GENERIC
    /\ pc[w] = "write_ret" /\ wOut[w] = "raised" /\ finalResp[w] = "err"


(***************************************************************************)
(* Properties of read_register_map's batches, ranges and decoding           *)
(***************************************************************************)
RangesOfGroup == Spans(rmap.group, rmap.profile)
BatchesOfGroup == Batches(rmap.group, rmap.profile)

\* The ranges of the batch a definition is in that cover it fully
CoveringRanges(i) ==
  {n \in 1..Len(RangesOfGroup) :
     /\ \E j \in 1..Len(RangesOfGroup[n].batch) : RangesOfGroup[n].batch[j] = i
     /\ InRange(rmap.group[i], RangesOfGroup[n].r_start,
                RangesOfGroup[n].r_count)}

\* Definitions i and k are in one batch
SameBatch(i, k) ==
  \E n \in 1..Len(BatchesOfGroup) :
    /\ \E j \in 1..Len(BatchesOfGroup[n]) : BatchesOfGroup[n][j] = i
    /\ \E j \in 1..Len(BatchesOfGroup[n]) : BatchesOfGroup[n][j] = k

\* Definition i + 1 starts one address after definition i ends
OneRegisterGap(i) ==
  /\ i + 1 <= Len(rmap.group)
  /\ rmap.group[i + 1].address = DefEnd(rmap.group[i]) + 1

\* C13: no range read by read_register_map asks for more registers than
\* max(2, max_batch_size) when the profile sets max_batch_size (2 under
\* save_connect), and chunking a batch loses no register: the ranges of a
\* batch follow each other without a gap
C13_RangeWithinMax ==
  /\ PROFILE_CONFIG[rmap.profile].max_batch_size # 0 =>
       \A n \in 1..Len(RangesOfGroup) :
         /\ RangesOfGroup[n].r_count >= 1
         /\ RangesOfGroup[n].r_count
              <= Max(2, PROFILE_CONFIG[rmap.profile].max_batch_size)
  /\ rmap.profile = GATEWAY_PROFILE_SAVE_CONNECT =>
       \A n \in 1..Len(RangesOfGroup) : RangesOfGroup[n].r_count <= 2
  /\ \A n \in 1..(Len(RangesOfGroup) - 1) :
       RangesOfGroup[n].batch = RangesOfGroup[n + 1].batch =>
         RangesOfGroup[n + 1].r_start
           = RangesOfGroup[n].r_start + RangesOfGroup[n].r_count

\* A batch of more than two registers has been read in chunks under
\* save_connect
C13_Witness ==
  /\ rmap.profile = GATEWAY_PROFILE_SAVE_CONNECT
  /\ rmap.pos >= 2
  /\ RangesOfGroup[1].batch = RangesOfGroup[2].batch
  /\ Len(RangesOfGroup[1].batch) = 3

\* C14: every definition lies fully inside exactly one range of its batch,
\* so a uint32 is never split across two chunks
C14_OneCoveringRange ==
  \A i \in 1..Len(rmap.group) : Cardinality(CoveringRanges(i)) = 1

\* C15: under save_connect the members of a batch follow each other exactly
\* (the later one starts where the earlier one ends), and two definitions
\* with a one-register gap between them are in separate batches
C15_StrictContiguity ==
  rmap.profile = GATEWAY_PROFILE_SAVE_CONNECT =>
    /\ \A n \in 1..Len(BatchesOfGroup) :
         \A j \in 1..(Len(BatchesOfGroup[n]) - 1) :
           rmap.group[BatchesOfGroup[n][j + 1]].address
             = DefEnd(rmap.group[BatchesOfGroup[n][j]])
    /\ \A i \in 1..Len(rmap.group) : OneRegisterGap(i) => ~SameBatch(i, i + 1)

\* Two definitions one register apart have been read with two requests under
\* save_connect
C15_Witness ==
  /\ rmap.profile = GATEWAY_PROFILE_SAVE_CONNECT
  /\ rmap.pos >= 2
  /\ \E i \in 1..Len(rmap.group) :
       /\ OneRegisterGap(i)
       /\ {i, i + 1} \subseteq rmap.results

\* C16: under generic two definitions with a one-register gap between them
\* are merged into one batch
C16_GapBridged ==
  rmap.profile = GATEWAY_PROFILE_GENERIC =>
    \A i \in 1..Len(rmap.group) : OneRegisterGap(i) => SameBatch(i, i + 1)

\* C17: a key enters `results` only from the range just read, when that range
\* was read successfully, is a range of the key's batch, covers
\* [address, address + length) and the response holds all of these words;
\* nothing leaves `results`
C17_DecodedFromCoveringRange ==
  [][/\ rmap.results \subseteq rmap'.results
     /\ \A i \in rmap'.results \ rmap.results :
          LET sp == RangesOfGroup[rmap'.pos]
              d == rmap.group[i]
          IN  /\ rmap'.pos = rmap.pos + 1
              /\ rmap'.words >= 0
              /\ \E j \in 1..Len(sp.batch) : sp.batch[j] = i
              /\ sp.r_start <= d.address
              /\ DefEnd(d) <= sp.r_start + sp.r_count
              /\ DefEnd(d) - sp.r_start <= rmap'.words]_vars

\* A short response: the range was read, the definition whose words are all
\* there is in `results`, the one whose last word is missing is not
C17_Witness ==
  /\ rmap.pos >= 1
  /\ rmap.words = RangesOfGroup[rmap.pos].r_count - 1
  /\ rmap.results # {}
  /\ \E j \in 1..Len(RangesOfGroup[rmap.pos].batch) :
       /\ RangesOfGroup[rmap.pos].batch[j] \notin rmap.results
       /\ InRange(rmap.group[RangesOfGroup[rmap.pos].batch[j]],
                  RangesOfGroup[rmap.pos].r_start,
                  RangesOfGroup[rmap.pos].r_count)


(***************************************************************************)
(* Properties of the function code of reads                                 *)
(***************************************************************************)
\* C18: under save_connect read_input_registers is never requested: every
\* span, holding-class or input-class, is read with read_holding_registers,
\* and the fallback probe never runs
C18_HoldingOnly ==
  gateway_profile = GATEWAY_PROFILE_SAVE_CONNECT =>
    /\ force_input_as_holding
    /\ ~fallback
    /\ req[Poller] # "read_input_registers"
    /\ (pc[Poller] \in {"do_io", "await_fut"} /\ span \in 1..Len(PollSpans))
         => req[Poller] = "read_holding_registers"

\* An input-class span is on the wire with read_holding_registers under
\* save_connect
C18_Witness ==
  /\ gateway_profile = GATEWAY_PROFILE_SAVE_CONNECT
  /\ span \in 1..Len(PollSpans) /\ PollSpans[span] = "input"
  /\ req[Poller] = "read_holding_registers"
  /\ \E k \in Workers : op[k] = Poller /\ pc[k] = "io"

\* C19: when the read of an input-class span with read_input_registers and
\* the fallback read with read_holding_registers both fail, the span is
\* given up without raising: `results` is unchanged, the flag stays unset and
\* the loop goes on; while the flag is unset an input-class span is requested
\* with read_input_registers
C19_DoubleFailureAborts ==
  [][/\ (/\ pc[Poller] = "have_rr" /\ fallback
         /\ got[Poller] \in {"err", "busy", "exc", "none"}
         /\ pc'[Poller] # "have_rr")
        => /\ results' = results
           /\ ~force_input_as_holding /\ ~force_input_as_holding'
           /\ pollOut' = pollOut /\ pollOut' # "raised"
           /\ pc'[Poller] = "next_span"
           /\ span' = span + 1 /\ ~fallback'
     /\ (/\ pc[Poller] = "next_span" /\ pc'[Poller] = "do_io"
         /\ PollSpans[span] = "input" /\ ~force_input_as_holding)
        => req'[Poller] = "read_input_registers"]_vars

\* After both reads of the first input-class span failed, the second
\* input-class span is on the wire with read_input_registers
C19_Witness ==
  /\ span = 3 /\ PollSpans[2] = "input" /\ PollSpans[3] = "input"
  /\ 2 \notin results /\ ~force_input_as_holding /\ ~learned
  /\ ~fallback /\ pollOut = "none"
  /\ pc[Poller] = "io" /\ req[Poller] = "read_input_registers"

\* C20: the flag is monotonic: no step of read_register_map, write_register,
\* a forced reconnect or async_close changes it from set to unset
C20_FlagMonotonic ==
  [][force_input_as_holding => force_input_as_holding']_vars

\* The flag was learned, async_close has reset the client since, and the next
\* read_register_map call is about to read an input-class span with
\* read_holding_registers
C20_Witness ==
  /\ gateway_profile = GATEWAY_PROFILE_GENERIC
  /\ learned /\ force_input_as_holding
  /\ pc[Closer] = "closed" /\ client = "none"
  /\ span \in 1..Len(PollSpans) /\ PollSpans[span] = "input"
  /\ pc[Poller] = "do_io" /\ req[Poller] = "read_holding_registers"


(***************************************************************************)
(* Properties of _decode_registers                                          *)
(***************************************************************************)
\* The word at the index of the call, when there is one
WordAt(j) == Item(dec.registers, dec.idx + j)

\* C21: _decode_registers gives the reference decoding of every word: int16 is
\* the value in -32768..32767 congruent to the word modulo 2^16 (0xFFFF gives
\* -1), uint16 is the word's low 16 bits, uint32 has the word at the index as
\* its low half and the next word as its high half ([0x0001, 0x0002] gives
\* 0x00020001), so it lies in 0..2^32-1; the call returns None exactly when
\* a word it needs is not in the list or the data_type is unknown
C21_ReferenceDecoding ==
  dec.done =>
    /\ dec.none <=> \/ dec.data_type \notin {"int16", "uint16", "uint32"}
                    \/ ~IndexOk(Len(dec.registers), dec.idx)
                    \/ /\ dec.data_type = "uint32"
                       /\ ~IndexOk(Len(dec.registers), dec.idx + 1)
    /\ (~dec.none /\ dec.data_type = "int16") =>
         /\ dec.hi = 0
         /\ dec.lo \in -32768..32767
         /\ (dec.lo - WordAt(0)) % 65536 = 0
         /\ WordAt(0) = 65535 => dec.lo = -1
    /\ (~dec.none /\ dec.data_type = "uint16") =>
         /\ dec.hi = 0
         /\ dec.lo \in 0..65535
         /\ (dec.lo - WordAt(0)) % 65536 = 0
    /\ (~dec.none /\ dec.data_type = "uint32") =>
         /\ dec.lo \in 0..65535 /\ dec.hi \in 0..65535
         /\ (dec.lo - WordAt(0)) % 65536 = 0
         /\ (dec.hi - WordAt(1)) % 65536 = 0
         /\ (dec.idx = 0 /\ dec.registers = <<1, 2>>)
              => (dec.hi = 2 /\ dec.lo = 1)
    /\ (dec.data_type \in DataTypes /\ dec.idx >= 0) =>
         (~dec.none <=> Decodes(Len(dec.registers), dec.idx, dec.data_type))

\* The words [0x0001, 0x0002] have been decoded as uint32 0x00020001
C21_Witness ==
  /\ dec.done /\ ~dec.none
  /\ dec.data_type = "uint32" /\ dec.idx = 0 /\ dec.registers = <<1, 2>>
  /\ dec.hi = 2 /\ dec.lo = 1


\* The range read by the latest step, and the definitions of its batch that
\* lie inside it
LatestRange == RangesOfGroup[rmap'.pos]
InsideLatest ==
  {LatestRange.batch[j] : j \in
     {j \in 1..Len(LatestRange.batch) :
        /\ LatestRange.r_start <= rmap.group[LatestRange.batch[j]].address
        /\ DefEnd(rmap.group[LatestRange.batch[j]])
             <= LatestRange.r_start + LatestRange.r_count}}

\* C22: when a response holds fewer words than the range asked for, the loop
\* goes on without raising; of the definitions inside the range exactly those
\* whose words are all in the response get their key into `results`, the
\* others are left out
C22_ShortResponseKeepsRest ==
  [][(rmap'.pos = rmap.pos + 1 /\ rmap'.words >= 0) =>
       \A i \in InsideLatest :
         i \in rmap'.results
           <=> DefEnd(rmap.group[i]) - LatestRange.r_start <= rmap'.words]_vars

\* A response one word short: of two definitions inside the range the first
\* is in `results`, the second is not
C22_Witness ==
  /\ rmap.pos >= 1
  /\ rmap.words = 1 /\ RangesOfGroup[rmap.pos].r_count = 2
  /\ \E i \in 1..(Len(rmap.group) - 1) :
       /\ rmap.group[i].address = RangesOfGroup[rmap.pos].r_start
       /\ rmap.group[i + 1].address = RangesOfGroup[rmap.pos].r_start + 1
       /\ rmap.group[i].data_type = "int16"
       /\ rmap.group[i + 1].data_type = "int16"
       /\ SameBatch(i, i + 1)
       /\ i \in rmap.results /\ (i + 1) \notin rmap.results


(***************************************************************************)
(* Properties of write_0_1c                                                 *)
(***************************************************************************)
\* C23: the raw value given to write_register is never negative, and for a
\* temperature in whole tenths of a degree it is the number of tenths, or 0
\* when that is negative (21.5 gives 215, -5.0 gives 0)
C23_TenthsClamped ==
  temp.done =>
    /\ temp.raw >= 0
    /\ temp.hundredths % 10 = 0 =>
         temp.raw = Max(0, temp.hundredths \div 10)
    /\ temp.hundredths = 2150 => temp.raw = 215
    /\ temp.hundredths = -500 => temp.raw = 0

\* -5.0 degrees has been turned into the raw value 0
C23_Witness == temp.done /\ temp.hundredths = -500 /\ temp.raw = 0


(***************************************************************************)
(* Properties of SaveModel.compute_derived                                  *)
(***************************************************************************)
In(k) == drv.data[k]
IntIn(k, default) == ToInt(In(k), default)

\* C24: filter remaining time.  days = seconds div 86400 and months = days
\* div 30 when seconds > 0, both 0 otherwise; the bucket is unknown when
\* seconds <= 0, more_than_18_months when days > 548, months when
\* 31 <= days <= 548, days otherwise (2,000,000 s: 23 days, 0 months, days;
\* 50,000,000 s: 578 days, more_than_18_months)
C24_FilterTime ==
  (drv.called /\ drv.done) =>
    LET sec == drv.out.filter_time_remaining_s
        days == drv.out.filter_time_remaining_days
        months == drv.out.filter_time_remaining_months
        bucket == drv.out.next_filter_change_bucket
    IN  /\ (In("time_to_filter_replacement").kind = "num"
            /\ In("time_to_filter_replacement").tenths % 10 = 0)
             => sec * 10 = In("time_to_filter_replacement").tenths
        /\ sec > 0 => /\ days * 86400 <= sec /\ sec < (days + 1) * 86400
                      /\ months * 30 <= days /\ days < (months + 1) * 30
        /\ sec <= 0 => days = 0 /\ months = 0
        /\ bucket = "unknown" <=> sec <= 0
        /\ bucket = "more_than_18_months" <=> (sec > 0 /\ days > 548)
        /\ bucket = "months" <=> (sec > 0 /\ 31 <= days /\ days <= 548)
        /\ bucket = "days" <=> (sec > 0 /\ days < 31)
        /\ sec = 2000000 => (days = 23 /\ months = 0 /\ bucket = "days")
        /\ sec = 50000000 => (days = 578 /\ bucket = "more_than_18_months")

\* 50,000,000 s has given 578 days and the bucket more_than_18_months
C24_Witness ==
  /\ drv.called /\ drv.done
  /\ In("time_to_filter_replacement") = Whole(50000000)
  /\ drv.out.filter_time_remaining_days = 578
  /\ drv.out.next_filter_change_bucket = "more_than_18_months"

\* C25: the filter status by strict priority: replace_filter whenever the
\* alarm flag is 1, else warning whenever the warning flag is 1, else unknown
\* when seconds <= 0, else ok
C25_StatusPriority ==
  (drv.called /\ drv.done) =>
    LET status == drv.out.next_filter_change_status
        alarm == IntIn("filter_alarm", 0)
        warning == IntIn("filter_warning_alarm", 0)
        sec == drv.out.filter_time_remaining_s
    IN  /\ alarm = 1 => status = "replace_filter"
        /\ (alarm # 1 /\ warning = 1) => status = "warning"
        /\ (alarm # 1 /\ warning # 1 /\ sec <= 0) => status = "unknown"
        /\ (alarm # 1 /\ warning # 1 /\ sec > 0) => status = "ok"

\* The alarm flag has won over the warning flag and a missing counter
C25_Witness ==
  /\ drv.called /\ drv.done
  /\ In("filter_alarm") = Whole(1) /\ In("filter_warning_alarm") = Whole(1)
  /\ In("time_to_filter_replacement") = Absent
  /\ drv.out.next_filter_change_status = "replace_filter"

\* The enumeration of the primary codes 2..12
EnumeratedModes ==
  <<"party", "boost", "fireplace", "away", "holiday", "cooker_hood",
    "vacuum_cleaner", "cdi1", "cdi2", "cdi3", "pressure_guard">>

\* The mode text for the primary codes other than 0
TwoLevelLookup ==
  LET mode == IntIn("mode_status_register", -1)
      man == IntIn("manual_mode_command_register", -1)
      text == drv.out.mode_status_text
  IN  /\ (mode = 1 /\ man = 0) => text = "manual_stop"
      /\ (mode = 1 /\ man = 2) => text = "manual_low"
      /\ (mode = 1 /\ man = 3) => text = "manual_normal"
      /\ (mode = 1 /\ man = 4) => text = "manual_high"
      /\ (mode = 1 /\ man \notin {0, 2, 3, 4}) => text = "manual_unknown"
      /\ mode \in 2..12 => text = EnumeratedModes[mode - 1]
      /\ mode \notin 0..12 => text = "unknown"

\* C26 (as the code has it): the two-level lookup, with the primary code 0
\* giving auto_demand_control (the entry "auto" of the table is never used)
C26_ModeText ==
  (drv.called /\ drv.done) =>
    /\ TwoLevelLookup
    /\ IntIn("mode_status_register", -1) = 0
         => drv.out.mode_status_text = "auto_demand_control"

\* C26 (as stated): the two-level lookup, with the primary code 0 giving auto
C26_ModeTextAuto ==
  (drv.called /\ drv.done) =>
    /\ TwoLevelLookup
    /\ IntIn("mode_status_register", -1) = 0
         => drv.out.mode_status_text = "auto"

\* The primary code 0 has been turned into a mode text
C26_Witness ==
  /\ drv.called /\ drv.done
  /\ In("mode_status_register") = Whole(0)
  /\ drv.out.mode_status_text = "auto_demand_control"

DerivedKeys ==
  {"filter_time_remaining_s", "filter_time_remaining_days",
   "filter_time_remaining_months", "next_filter_change_status",
   "next_filter_change_bucket", "next_filter_change", "active_season",
   "iaq_level_text", "regulation_mode_text", "mode_status_text",
   "exhaust_air_flow_rate", "supply_air_flow_rate"}

Unusable(k) == In(k).kind # "num"

\* C27: compute_derived raises nothing and returns every derived key, whatever
\* inputs are absent or no numbers, with the neutral default where the input
\* is unusable: 0 for seconds, days, months and the flow rates, unknown for
\* bucket, season, air-quality level, regulation mode and mode text, and for
\* the status when neither flag is usable either
C27_TotalOnPartialInput ==
  (drv.called /\ drv.done) =>
    /\ ~drv.raised
    /\ DOMAIN drv.out = DerivedKeys
    /\ Unusable("time_to_filter_replacement") =>
         /\ drv.out.filter_time_remaining_s = 0
         /\ drv.out.filter_time_remaining_days = 0
         /\ drv.out.filter_time_remaining_months = 0
         /\ drv.out.next_filter_change_bucket = "unknown"
         /\ (Unusable("filter_alarm") /\ Unusable("filter_warning_alarm"))
              => /\ drv.out.next_filter_change_status = "unknown"
                 /\ drv.out.next_filter_change.text = "Unknown"
    /\ Unusable("summer_winter_operation_1_0")
         => drv.out.active_season = "unknown"
    /\ Unusable("iaq_level") => drv.out.iaq_level_text = "unknown"
    /\ Unusable("supply_air_room_exhaust_reg")
         => drv.out.regulation_mode_text = "unknown"
    /\ Unusable("mode_status_register") => drv.out.mode_status_text = "unknown"
    /\ Unusable("extractor_fan_pwr_fact") => drv.out.exhaust_air_flow_rate = 0
    /\ Unusable("supply_air_fan_pwr_fact") => drv.out.supply_air_flow_rate = 0

\* A call in which some inputs are absent, some are no numbers and one is
\* usable has returned
C27_Witness ==
  /\ drv.called /\ drv.done /\ ~drv.raised
  /\ In("time_to_filter_replacement") = Text
  /\ In("filter_alarm") = Absent
  /\ In("mode_status_register") = Text
  /\ In("iaq_level") = Whole(1)
  /\ drv.out.mode_status_text = "unknown"
  /\ drv.out.iaq_level_text = "good"
  /\ drv.out.filter_time_remaining_s = 0


(***************************************************************************)
(* Properties of the call shim                                              *)
(***************************************************************************)
TriedShape(i) == ShapesOf(shim.kind)[shim.tried[i]]

\* C28: when the transport rejects every call shape, the failure reaches the
\* caller of the public operation as an error, for read_register_map and for
\* write_register alike
C28_ShapeFailurePropagates ==
  (shim.called /\ shim.result = "TypeError" /\ shim.public # "pending")
    => shim.public = "raised"

\* C29 (as the code has it): the shim tries the shapes in the fixed order of
\* the code and stops at the first one the transport accepts: the shapes tried
\* are an initial piece of that order, all but the last were rejected, the
\* first four carry the identifier under the keywords slave, unit, device_id,
\* unit_id, the shim ends with what the accepted call does and at most one
\* call reaches the transport; the TypeError of the last shape ends it when
\* none is accepted
C29_FixedOrderFirstAccepted ==
  shim.called =>
    /\ \A i \in 1..Len(shim.tried) : shim.tried[i] = i
    /\ \A i \in 1..(Len(shim.tried) - 1) : i \notin shim.accepts
    /\ \A i \in 1..Len(shim.tried) :
         i <= 4 => TriedShape(i).id = IdKeywords[i]
    /\ shim.calls <= 1
    /\ shim.result \in {"rr", "exc"}
         <=> (shim.tried # <<>> /\ Len(shim.tried) \in shim.accepts)
    /\ shim.result \in {"rr", "exc"}
         => (shim.result = shim.ends /\ shim.calls = 1)
    /\ shim.result = "TypeError"
         => /\ Len(shim.tried) = Len(ShapesOf(shim.kind))
            /\ shim.accepts = {} /\ shim.calls = 0

\* C29 (as stated): every shape that carries the identifier under a keyword
\* is tried before any shape without the identifier
C29_IdentifierShapesFirst ==
  shim.called =>
    \A i \in 1..Len(shim.tried) : \A j \in 1..Len(shim.tried) :
      (i < j /\ TriedShape(i).id = "none")
        => TriedShape(j).id \notin {IdKeywords[k] : k \in 1..4}

\* A read has returned from the sixth shape (count positional, slave keyword),
\* after the shape with count as keyword and no identifier was rejected
C29_Witness ==
  /\ shim.called /\ shim.kind = "read"
  /\ shim.result = "rr" /\ Len(shim.tried) = 6 /\ shim.calls = 1
  /\ TriedShape(5).id = "none" /\ TriedShape(6).id = "slave"


(***************************************************************************)
(* Properties of the direct path (generic profile)                          *)
(***************************************************************************)
InFlight == {c \in Callers : pc[c] = "io"}

\* C30: under generic at most one request is in flight, whatever callers run
\* concurrently: a request is sent by the holder of the lock only, and when it
\* is sent after an earlier request returned a response, at least
\* DEFAULT_MESSAGE_WAIT_S (30 ms) has been slept since that response
C30_GenericSerialized ==
  [][/\ Cardinality(InFlight) <= 1
     /\ \A t \in Callers :
          Issues(t) => /\ io_lock = t
                       /\ InFlight = {}
                       /\ sinceResp = -1
                            \/ sinceResp >= DEFAULT_MESSAGE_WAIT_S]_vars

\* A caller that waited for the lock is about to send its request, the
\* message wait after the other caller's response being over
C30_Witness ==
  \E t \in Callers :
    /\ gateway_profile = GATEWAY_PROFILE_GENERIC
    /\ running = t /\ pc[t] = "call" /\ io_lock = t
    /\ hnd[t] = "cur" /\ client = "conn"
    /\ sinceResp = DEFAULT_MESSAGE_WAIT_S
    /\ \E u \in Callers \ {t} : pc[u] # "idle"

(***************************************************************************)
(* The connection a request is made on                                     *)
(***************************************************************************)
\* Context t is about to call the request method of the handle _ensure_client
\* returned (`return await self._call_read(client, ...)` in _read_once,
\* `rr = await self._call_read(client, ...)` in _do_read, and the same for
\* writes)
Requests(t) == pc[t] = "call"

\* The handle of context t is the client's current one and it is connected
Ready(t) == hnd[t] = "cur" /\ client = "conn"

\* C31: a read or write request is made in the Ready state only: an attempt
\* that found the client disconnected has connected it first, and when the
\* connect did not leave the client connected no request is made on it.
C31_RequestOnlyWhenReady ==
  \A t \in Ctx : (Requests(t) /\ hnd[t] = "cur") => client = "conn"

(***************************************************************************)
(* Properties of the reads of one read_register_map call                   *)
(***************************************************************************)
\* The definitions of one class do not overlap: none starts below the end of
\* another one that starts at or below it
NoOverlap(group_type) ==
  LET g == GroupOf(cyc.register_defs, group_type)
  IN  \A i, j \in 1..Len(g) : i < j => g[j].address >= DefEnd(g[i])

\* The reads of a call come one at a time, holding definitions first
OneByOneHoldingFirst ==
  /\ cyc.awaited <= 1
  /\ \A i, j \in 1..Len(cyc.issued) :
       i < j => ~(cyc.issued[i].group_type = "input"
                  /\ cyc.issued[j].group_type = "holding")

Takes(k) == op[k] = "none" /\ op'[k] # "none"

\* Worker k leaves its operation: it returned, raised or was abandoned
Leaves(k) == op[k] # "none" /\ op'[k] = "none"

\* C33: under save_connect the worker sleeps the pacing delay (100 ms) after
\* every operation it executed, whether the operation returned or raised,
\* before it takes the next one: every operation is left into the pacing
\* sleep, and (no async_close having been called) an operation is taken no
\* sooner than 100 ms of sleep after the operation before it was left.
C33_PacingAfterEveryOp ==
  [][\A k \in Workers :
       /\ Leaves(k) => pc'[k] \in {"pacing", "pacing_c"}
       /\ (Takes(k) /\ pc[Closer] = "idle") =>
             \/ sinceOp = -1
             \/ sinceOp >= DEFAULT_SAVE_CONNECT_PACING_S]_vars

\* C33 happens: an operation has raised after its last attempt, the worker
\* has slept the pacing delay and is about to take the next operation, whose
\* caller enqueued it in the meantime
C33_Witness ==
  \E k \in Workers :
    /\ pc[Closer] = "idle"
    /\ running = k /\ pc[k] = "deq"
    /\ \E c \in Callers : fut[c] = "exc"
    /\ \E c \in Callers : fut[c] = "pending" /\ queue # <<>> /\ queue[1] = c
    /\ sinceOp = DEFAULT_SAVE_CONNECT_PACING_S

\* C34: under save_connect, when async_close is not called and every connect
\* and request call returns or raises sooner or later, every operation put
\* on the queue is taken by the worker and its caller gets a result or an
\* exception: an operation that fails does not hold up the ones behind it
\* for ever.
C34_EveryOpServed ==
  \A c \in Callers :
    /\ (c \in Range(queue)) ~> (\E k \in Workers : op[k] = c)
    /\ (pc[c] = "await_fut") ~> (pc[c] = "have_rr")

\* C34 happens: an operation has raised after its last attempt and its
\* caller is about to get the exception, while the caller of the operation
\* executed after it has its result
C34_Witness ==
  \E c, d \in Callers :
    /\ c # d
    /\ pc[c] = "have_rr" /\ got[c] = "ok"
    /\ pc[d] = "await_fut" /\ fut[d] = "exc"

\* C35: under save_connect an operation whose caller was cancelled while it
\* was still in the queue is never executed: the worker takes an operation
\* only if its future is not cancelled.  An operation whose caller is
\* cancelled while it is being executed goes on to its end (the message
\* wait or the last backoff); the worker then leaves the future cancelled,
\* sleeps the pacing delay and does not end with an exception.
C35_CancelledCallers ==
  [][\A k \in Workers :
       /\ Takes(k) => fut[op'[k]] = "pending"
       /\ (Leaves(k) /\ fut[op[k]] = "cancelled") =>
             /\ pc[k] \in {"msgwait", "backoff", "after_backoff"}
             /\ fut'[op[k]] = "cancelled"
             /\ pc'[k] = "pacing"
       /\ pc'[k] # "done_exc"]_vars

\* C35 happens: the operation of a cancelled caller has got its response
\* and sleeps the message wait, its future cancelled, while the operation of
\* another caller, cancelled in the queue, waits to be skipped
C35_Witness ==
  \E k \in Workers, c, d \in Callers :
    /\ c # d
    /\ op[k] = c /\ pc[k] = "msgwait" /\ lastOut[k] = "ok"
    /\ pc[c] = "cancelled" /\ fut[c] = "cancelled"
    /\ queue = <<d>>
    /\ pc[d] = "cancelled" /\ fut[d] = "cancelled"

(***************************************************************************)
(* Properties of closing                                                   *)
(***************************************************************************)
\* C36: at most one queue-worker task of the client is alive at any time,
\* also when read_register_map or write_register is called while async_close
\* is in progress or right after it.
C36_OneWorkerAlive ==
  Cardinality({k \in Workers : WorkerAlive(k)}) <= 1

\* C37: under the generic profile a request is never made on a client handle
\* that async_close has closed and discarded: a caller that got the handle
\* and waited for self._io_lock while async_close ran does not call the
\* request method of that handle afterwards.
C37_NoRequestOnClosedHandle ==
  \A c \in Callers : Requests(c) => hnd[c] # "old"

\* The callers suspended in `await self._client.connect()` on the client's
\* current handle
Connecting == {c \in Callers : pc[c] = "connect" /\ hnd[c] = "cur"}

\* C38: under the generic profile connecting is serialized like the
\* requests: two callers never run connect on the same client at the same
\* time, and no connect runs on a client while a request is in flight on it.
C38_ConnectSerialized ==
  /\ Cardinality(Connecting) <= 1
  /\ Connecting # {} => \A c \in InFlight : hnd[c] # "cur"

(***************************************************************************)
(* Properties of a poll cycle                                              *)
(***************************************************************************)
\* The reads of the poll in the first n items of the queue
PollReadsIn(q, n) == Cardinality({i \in 1..n : q[i] = Poller})

\* The place of caller c's operation in queue q (0: not queued)
PlaceOf(q, c) ==
  IF c \in Range(q) THEN CHOOSE i \in 1..Len(q) : q[i] = c ELSE 0

\* C39: under save_connect a poll has at most one of its reads in the queue
\* or being executed at any time.  While a write waits in the queue no read
\* of the poll gets in front of it, and the worker takes a read of the poll
\* only from the head of the queue; so at most one read of the poll, the one
\* pending when the write was enqueued, is executed before the write.
C39_OnePollReadPending ==
  [][/\ PollReadsIn(queue', Len(queue'))
          + Cardinality({k \in Workers : op'[k] = Poller}) <= 1
     /\ \A w \in Writers :
          (w \in Range(queue) /\ w \in Range(queue')) =>
             /\ PollReadsIn(queue', PlaceOf(queue', w))
                  <= PollReadsIn(queue, PlaceOf(queue, w))
             /\ \A k \in Workers :
                  (Takes(k) /\ op'[k] = Poller) => Head(queue) = Poller]_vars

\* C39 happens: the write enqueued during the first read of a poll is being
\* executed while the second read of the poll waits behind it
C39_Witness ==
  \E k \in Workers, w \in Writers :
    /\ pc[Closer] = "idle"
    /\ op[k] = w /\ pc[k] = "io"
    /\ queue = <<Poller>> /\ span = 2
    /\ 1 \in results

\* C40: under the generic profile a span read that fails is not retried,
\* although the profile carries retries = 3.  In one poll cycle each span is
\* read by one _do_read, which never goes back to connect or send and never
\* sleeps a backoff; a second _do_read of the same span is the fallback with
\* read_holding_registers, made once, exactly when the first one used
\* read_input_registers, failed, and the sticky flag is unset; after that
\* the poll moves on to the next span.  Only async_close discards the client.
C40_GenericReadOnce ==
  [][/\ attempt'[Poller] = 0
     /\ pc'[Poller] \notin {"backoff", "after_backoff"}
     /\ (pc[Poller] \in {"io", "failed", "msgwait"}
           /\ pc'[Poller] # pc[Poller]) =>
           pc'[Poller] \in {"failed", "msgwait", "have_rr"}
     /\ (pc[Poller] = "have_rr" /\ pc'[Poller] = "do_io") =>
           /\ span' = span
           /\ ~fallback /\ fallback'
           /\ req[Poller] = "read_input_registers"
           /\ req'[Poller] = "read_holding_registers"
           /\ got[Poller] \in {"err", "exc"}
           /\ ~force_input_as_holding
     /\ (pc[Poller] = "have_rr" /\ ~fallback
           /\ got[Poller] \in {"err", "exc"}
           /\ req[Poller] = "read_input_registers"
           /\ ~force_input_as_holding) => pc'[Poller] = "do_io"
     /\ (pc[Poller] = "have_rr" /\ pc'[Poller] = "next_span") =>
           span' = span + 1
     /\ (client # "none" /\ client' = "none") =>
           pc'[Closer] # pc[Closer]]_vars

\* C40 happens: the read of an input span and its fallback have both failed,
\* the span is left out, and the poll has sent the read of the next span on
\* the same connection
C40_Witness ==
  /\ gateway_profile = GATEWAY_PROFILE_GENERIC /\ retries = 3
  /\ pc[Closer] = "idle"
  /\ span = 3 /\ 2 \notin results /\ ~force_input_as_holding
  /\ pc[Poller] = "io" /\ req[Poller] = "read_input_registers"
  /\ attempt[Poller] = 0 /\ client = "conn" /\ connected_once

====
